---------------------------- MODULE Spec2Model ----------------------------
(***************************************************************************)
(* Model of @hakit/date-and-time: the DateText part composer, the locale   *)
(* helper, the digital / flip clock and the analog clock.                  *)
(*                                                                         *)
(* Strings are sequences of one-character strings, so that String(n),      *)
(* pad2, split("") and concatenation are computed and not assumed.         *)
(* An instant is a number of seconds since 2025-10-01T00:00:00Z; the page's *)
(* clock and its timers count milliseconds.                                *)
(***************************************************************************)
EXTENDS Integers, Sequences, FiniteSets, TLC

VARIABLES
    hostZone,   \* the time zone of the machine the page runs on (Date#getDate, Date#getHours)
    icuPads,    \* whether the platform's pattern data honours "2-digit" with a leading zero
    cInstant,   \* composer: the instant handed to the composer
    cLocale,    \* composer: the resolved locale (getLocale's result)
    cZone,      \* composer: the resolved timezone (an IANA name or undefined)
    cFormat,    \* composer: props.format
    cDay,       \* composer: the argument of the last evaluation's getOrdinalSuffix call (0: none)
    cOrd,       \* composer: the result of that call
    cLast,      \* composer: the last evaluation (tick or composePreview) and its output
    hasNavigator, \* whether the global navigator exists
    navLanguage,  \* navigator.language
    rCfg,       \* render: the host configuration useConfig() returns (language, time_zone)
    rOverride,  \* render: props.timezone.override
    rFormat,    \* render: DateText's props.format
    rShow,      \* render: the clock's props.show
    rNow,       \* render: the instant of the render
    rOut,       \* render: the outcome of the last getLocale call or widget render
    rLocales,   \* render: the localized strings useLocales() returns
    rLabelsShow, \* render: the clock's props.labels.show
    rStyleMode, \* render: the clock's props.appearance.styleMode
    rTicks,     \* render: the analog clock's props.markers.ticks
    clock,      \* page: Date.now(), in milliseconds since 2025-10-01T00:00:00Z
    advances,   \* page: how many times the clock has moved on
    timers,     \* page: the window's pending timeouts and intervals
    nextTimerId, \* page: the id the next setTimeout / setInterval returns
    dc,         \* page: the digital / flip clock instances (component state, refs, DOM)
    dt,         \* page: the DateText instances
    ac,         \* page: the analog clock instances
    fd,         \* page: a FlipDigit taken by itself (its faces, refs and card)
    fdCalls     \* page: the updateDigit calls made on it so far, in order

composeVars == <<cInstant, cLocale, cZone, cFormat, cDay, cOrd, cLast>>
envVars == <<hostZone, icuPads, hasNavigator, navLanguage>>
renderVars == <<rCfg, rOverride, rFormat, rShow, rNow, rOut, rLocales, rLabelsShow,
                rStyleMode, rTicks>>
pageVars == <<clock, advances, timers, nextTimerId, dc, dt, ac, fd, fdCalls>>
vars == <<envVars, composeVars, renderVars, pageVars>>

Undef == "undefined"

----------------------------------------------------------------------------
(* Bounds of the model *)

\* the composer is run at noon UTC of NumDays consecutive days, the first one
\* 2025-09-30, so that every day of month 1..31 occurs in every zone
NumDays == 32

\* a widget renders again at most MaxRenders times after its first render
MaxRenders == 1

\* the page's clock moves on at most MaxAdvances times
MaxAdvances == 2

\* at most MaxWidgets widgets are placed on the page
MaxWidgets == 2

----------------------------------------------------------------------------
(* Strings *)

DigitChars == <<"0", "1", "2", "3", "4", "5", "6", "7", "8", "9">>

\* String(n) / `${n}` for a non-negative integer
RECURSIVE DecStr(_)
DecStr(n) ==
    IF n < 10 THEN <<DigitChars[n + 1]>>
    ELSE DecStr(n \div 10) \o <<DigitChars[(n % 10) + 1]>>

\* the number a string of decimal digits denotes
RECURSIVE DecValue(_)
DecValue(cs) ==
    IF cs = <<>> THEN 0
    ELSE 10 * DecValue(SubSeq(cs, 1, Len(cs) - 1))
         + (CHOOSE d \in 0..9 : DigitChars[d + 1] = cs[Len(cs)])

RECURSIVE Concat(_)
Concat(ss) == IF ss = <<>> THEN <<>> ELSE Head(ss) \o Concat(Tail(ss))

----------------------------------------------------------------------------
(* The calendar behind Date and Intl.DateTimeFormat *)

SecondsPerDay == 24 * 3600

\* IANA zones the platform knows, with their UTC offset in October 2025 (seconds)
ZoneOffset(z) ==
    CASE z = "Etc/UTC" -> 0
      [] z = "Pacific/Auckland" -> 46800
      [] z = "America/Los_Angeles" -> 0 - 25200

KnownZones == {"Etc/UTC", "Pacific/Auckland", "America/Los_Angeles"}

\* Wall-clock fields of instant t in a zone with UTC offset off.
\* Day index 0 is 2025-10-01, a Wednesday (weekday 3, Sunday = 0).
Civil(t, off) ==
    LET ls  == t + off
        di  == ls \div SecondsPerDay
        sod == ls % SecondsPerDay
    IN  [ year    |-> 2025,
          month   |-> IF di < 0 THEN 9 ELSE IF di < 31 THEN 10 ELSE 11,
          day     |-> IF di < 0 THEN 31 + di ELSE IF di < 31 THEN di + 1 ELSE di - 30,
          weekday |-> (3 + di) % 7,
          hour    |-> sod \div 3600,
          minute  |-> (sod % 3600) \div 60,
          second  |-> sod % 60 ]

\* Date.prototype.getDate / getHours: fields in the machine's own zone
getDate(t, host) == Civil(t, ZoneOffset(host)).day
getHours(t, host) == Civil(t, ZoneOffset(host)).hour

WeekdayNames ==
    [ en |->
        [ long |->
            << <<"S","u","n","d","a","y">>,
               <<"M","o","n","d","a","y">>,
               <<"T","u","e","s","d","a","y">>,
               <<"W","e","d","n","e","s","d","a","y">>,
               <<"T","h","u","r","s","d","a","y">>,
               <<"F","r","i","d","a","y">>,
               <<"S","a","t","u","r","d","a","y">> >>,
          short |->
            << <<"S","u","n">>, <<"M","o","n">>, <<"T","u","e">>, <<"W","e","d">>,
               <<"T","h","u">>, <<"F","r","i">>, <<"S","a","t">> >>,
          narrow |->
            << <<"S">>, <<"M">>, <<"T">>, <<"W">>, <<"T">>, <<"F">>, <<"S">> >> ],
      de |->
        [ long |->
            << <<"S","o","n","n","t","a","g">>,
               <<"M","o","n","t","a","g">>,
               <<"D","i","e","n","s","t","a","g">>,
               <<"M","i","t","t","w","o","c","h">>,
               <<"D","o","n","n","e","r","s","t","a","g">>,
               <<"F","r","e","i","t","a","g">>,
               <<"S","a","m","s","t","a","g">> >>,
          short |->
            << <<"S","o">>, <<"M","o">>, <<"D","i">>, <<"M","i">>,
               <<"D","o">>, <<"F","r">>, <<"S","a">> >>,
          narrow |->
            << <<"S">>, <<"M">>, <<"D">>, <<"M">>, <<"D">>, <<"F">>, <<"S">> >> ] ]

\* months 9, 10, 11 (index month - 8)
MonthNames ==
    [ en |->
        [ long |->
            << <<"S","e","p","t","e","m","b","e","r">>,
               <<"O","c","t","o","b","e","r">>,
               <<"N","o","v","e","m","b","e","r">> >>,
          short |-> << <<"S","e","p">>, <<"O","c","t">>, <<"N","o","v">> >>,
          narrow |-> << <<"S">>, <<"O">>, <<"N">> >> ],
      de |->
        [ long |->
            << <<"S","e","p","t","e","m","b","e","r">>,
               <<"O","k","t","o","b","e","r">>,
               <<"N","o","v","e","m","b","e","r">> >>,
          short |-> << <<"S","e","p","t">>, <<"O","k","t">>, <<"N","o","v">> >>,
          narrow |-> << <<"S">>, <<"O">>, <<"N">> >> ] ]

----------------------------------------------------------------------------
(* Language tags: Intl.getCanonicalLocales and getLocale *)

\* the JavaScript value undefined where a string is expected
UndefStr == <<Undef>>

LowerChars == <<"d", "e", "n", "s", "u">>
UpperChars == <<"D", "E", "N", "S", "U">>

IsLower(c) == \E i \in 1..Len(LowerChars) : LowerChars[i] = c
IsUpper(c) == \E i \in 1..Len(UpperChars) : UpperChars[i] = c
IsAlpha(c) == IsLower(c) \/ IsUpper(c)
IsDigitChar(c) == \E i \in 1..Len(DigitChars) : DigitChars[i] = c

ToLower(c) ==
    IF IsUpper(c)
    THEN LowerChars[CHOOSE i \in 1..Len(UpperChars) : UpperChars[i] = c] ELSE c
ToUpper(c) ==
    IF IsLower(c)
    THEN UpperChars[CHOOSE i \in 1..Len(LowerChars) : LowerChars[i] = c] ELSE c

LowerCase(cs) == [i \in 1..Len(cs) |-> ToLower(cs[i])]
UpperCase(cs) == [i \in 1..Len(cs) |-> ToUpper(cs[i])]
TitleCase(cs) == [i \in 1..Len(cs) |-> IF i = 1 THEN ToUpper(cs[i]) ELSE ToLower(cs[i])]

\* tag.split("-")
RECURSIVE SplitDash(_, _, _)
SplitDash(cs, cur, acc) ==
    IF cs = <<>> THEN Append(acc, cur)
    ELSE IF Head(cs) = "-" THEN SplitDash(Tail(cs), <<>>, Append(acc, cur))
         ELSE SplitDash(Tail(cs), Append(cur, Head(cs)), acc)

AllAlpha(cs) == \A i \in 1..Len(cs) : IsAlpha(cs[i])
AllDigits(cs) == \A i \in 1..Len(cs) : IsDigitChar(cs[i])

IsLanguageSubtag(cs) == AllAlpha(cs) /\ (Len(cs) \in {2, 3} \/ Len(cs) \in 5..8)
IsScriptSubtag(cs) == AllAlpha(cs) /\ Len(cs) = 4
IsRegionSubtag(cs) == (AllAlpha(cs) /\ Len(cs) = 2) \/ (AllDigits(cs) /\ Len(cs) = 3)

\* language ["-" script] ["-" region], the tags a user language setting has
IsStructurallyValid(subs) ==
    /\ Len(subs) \in 1..3
    /\ IsLanguageSubtag(subs[1])
    /\ Len(subs) = 2 => (IsScriptSubtag(subs[2]) \/ IsRegionSubtag(subs[2]))
    /\ Len(subs) = 3 => (IsScriptSubtag(subs[2]) /\ IsRegionSubtag(subs[3]))

CanonSubtag(cs, i) ==
    IF i = 1 THEN LowerCase(cs)
    ELSE IF IsScriptSubtag(cs) THEN TitleCase(cs) ELSE UpperCase(cs)

RECURSIVE JoinDash(_)
JoinDash(subs) ==
    IF Len(subs) = 1 THEN subs[1]
    ELSE subs[1] \o <<"-">> \o JoinDash(Tail(subs))

\* Intl.getCanonicalLocales([tag])[0]: TypeError for a value that is no
\* string, RangeError for a tag that is not structurally valid
getCanonicalLocales(tag) ==
    IF tag = UndefStr THEN [threw |-> TRUE]
    ELSE LET subs == SplitDash(tag, <<>>, <<>>)
         IN  IF ~IsStructurallyValid(subs) THEN [threw |-> TRUE]
             ELSE [ threw |-> FALSE,
                    tag |-> JoinDash([i \in 1..Len(subs) |-> CanonSubtag(subs[i], i)]) ]

EnUS == <<"e", "n", "-", "U", "S">>
DeDE == <<"d", "e", "-", "D", "E">>

\* inputLocale || (typeof navigator !== "undefined" ? navigator.language : "en-US")
langOrFallback(inputLocale, hasNav, navLang) ==
    IF inputLocale # UndefStr /\ inputLocale # <<>> THEN inputLocale
    ELSE IF hasNav THEN navLang ELSE EnUS

\* getLocale with the try block left unguarded
getLocaleNoCatch(inputLocale, hasNav, navLang) ==
    LET lang == langOrFallback(inputLocale, hasNav, navLang)
        r == getCanonicalLocales(lang)
    IN  IF r.threw THEN [threw |-> TRUE] ELSE [threw |-> FALSE, locale |-> r.tag]

\* getLocale: its outcome is a returned locale (the canonical tag, or
\* undefined when the try block threw); the catch lets nothing propagate
getLocale(inputLocale, hasNav, navLang) ==
    LET lang == langOrFallback(inputLocale, hasNav, navLang)
        r == getCanonicalLocales(lang)
    IN  [threw |-> FALSE, locale |-> IF r.threw THEN UndefStr ELSE r.tag]

\* the language data a locale selects; the platform default is en-US
PlatformLocale == EnUS
LangOf(locale) ==
    IF Len(locale) >= 2 /\ SubSeq(locale, 1, 2) = <<"d", "e">> THEN "de" ELSE "en"

----------------------------------------------------------------------------
(* Intl.DateTimeFormat *)

OptKeys == {"timeZone", "hourCycle", "year", "month", "day", "weekday",
            "hour", "minute", "second"}
FieldKeys == {"year", "month", "day", "weekday", "hour", "minute", "second"}

NoOpts == [k \in OptKeys |-> Undef]

\* new Intl.DateTimeFormat(locale, opts): throws RangeError for a timeZone the
\* platform does not know and for a malformed locale tag; with no date or time field requested it formats
\* year, month and day as "numeric"; an undefined timeZone is the machine's zone.
DateTimeFormat(locale, opts, host, pads) ==
    IF \/ opts.timeZone # Undef /\ opts.timeZone \notin KnownZones
       \/ locale # UndefStr /\ getCanonicalLocales(locale).threw
    THEN [threw |-> TRUE]
    ELSE LET needDefaults == \A k \in FieldKeys : opts[k] = Undef
             ro == IF needDefaults
                   THEN [opts EXCEPT !.year = "numeric", !.month = "numeric",
                                     !.day = "numeric"]
                   ELSE opts
         IN  [ threw  |-> FALSE,
               lang   |-> LangOf(IF locale = UndefStr THEN PlatformLocale ELSE locale),
               zone   |-> IF opts.timeZone = Undef THEN host ELSE opts.timeZone,
               pads   |-> pads,
               opts   |-> ro ]

\* a numeric field in the style asked for
NumField(style, n, pads) ==
    IF style = "2-digit" /\ pads /\ n % 100 < 10
    THEN <<"0">> \o DecStr(n % 100)
    ELSE IF style = "2-digit" THEN DecStr(n % 100) ELSE DecStr(n)

\* the hour number shown under an hour cycle
HourOf(cycle, h) ==
    IF cycle = "h23" THEN h ELSE IF h % 12 = 0 THEN 12 ELSE h % 12

\* fmt.formatToParts(d), as a map from part type to value (literals left out,
\* no caller reads them)
formatToParts(fmt, t) ==
    LET c == Civil(t, ZoneOffset(fmt.zone))
        o == fmt.opts
        types == {k \in FieldKeys : o[k] # Undef}
                   \cup (IF o.hour # Undef /\ o.hourCycle # "h23"
                         THEN {"dayPeriod"} ELSE {})
        value(k) ==
            CASE k = "year" -> NumField(o.year, c.year, TRUE)
              [] k = "month" ->
                    IF o.month \in {"numeric", "2-digit"}
                    THEN NumField(o.month, c.month, fmt.pads)
                    ELSE MonthNames[fmt.lang][o.month][c.month - 8]
              [] k = "day" -> NumField(o.day, c.day, fmt.pads)
              [] k = "weekday" -> WeekdayNames[fmt.lang][o.weekday][c.weekday + 1]
              [] k = "hour" -> NumField(o.hour, HourOf(o.hourCycle, c.hour), fmt.pads)
              [] k = "minute" -> NumField(o.minute, c.minute, fmt.pads)
              [] k = "second" -> NumField(o.second, c.second, fmt.pads)
              [] k = "dayPeriod" -> IF c.hour < 12 THEN <<"A","M">> ELSE <<"P","M">>
    IN  [k \in types |-> value(k)]

----------------------------------------------------------------------------
(* DateText: presets and the part composer *)

P(k) == [part |-> k]
S(chars) == [sep |-> chars]
O(w, m, d, y) == [weekday |-> w, month |-> m, day |-> d, year |-> y]
Def(order, options, dayOrdinal) ==
    [order |-> order, options |-> options, dayOrdinal |-> dayOrdinal]

PRESETS ==
    [ weekday |-> Def(<<P("weekday")>>, O("long", Undef, Undef, Undef), FALSE),
      weekday_short |-> Def(<<P("weekday")>>, O("short", Undef, Undef, Undef), FALSE),
      day_numeric |-> Def(<<P("day")>>, O(Undef, Undef, "numeric", Undef), FALSE),
      day_ordinal |-> Def(<<P("day")>>, O(Undef, Undef, "numeric", Undef), TRUE),
      month_long |-> Def(<<P("month")>>, O(Undef, "long", Undef, Undef), FALSE),
      month_short |-> Def(<<P("month")>>, O(Undef, "short", Undef, Undef), FALSE),
      month_day_ordinal |->
          Def(<<P("month"), P("day")>>, O(Undef, "long", "numeric", Undef), TRUE),
      weekday_month_day_ordinal |->
          Def(<<P("weekday"), S(<<",", " ">>), P("month"), P("day")>>,
              O("long", "long", "numeric", Undef), TRUE),
      month_day_year |->
          Def(<<P("month"), P("day"), P("year")>>,
              O(Undef, "long", "numeric", "numeric"), FALSE),
      month_day_year_ordinal |->
          Def(<<P("month"), P("day"), P("year")>>,
              O(Undef, "long", "numeric", "numeric"), TRUE),
      weekday_month_day |->
          Def(<<P("weekday"), P("month"), P("day")>>,
              O("short", "short", "numeric", Undef), FALSE),
      weekday_month_day_year |->
          Def(<<P("weekday"), P("month"), P("day"), P("year")>>,
              O("short", "short", "numeric", "numeric"), FALSE),
      dmy_slash |->
          Def(<<P("day"), S(<<"/">>), P("month"), S(<<"/">>), P("year")>>,
              O(Undef, "2-digit", "2-digit", "numeric"), FALSE),
      ymd_slash |->
          Def(<<P("year"), S(<<"/">>), P("month"), S(<<"/">>), P("day")>>,
              O(Undef, "2-digit", "2-digit", "numeric"), FALSE),
      mdy_slash |->
          Def(<<P("month"), S(<<"/">>), P("day"), S(<<"/">>), P("year")>>,
              O(Undef, "2-digit", "2-digit", "numeric"), FALSE),
      iso |->
          Def(<<P("year"), S(<<"-">>), P("month"), S(<<"-">>), P("day")>>,
              O(Undef, "2-digit", "2-digit", "numeric"), FALSE),
      ymd_dot |->
          Def(<<P("year"), S(<<".">>), P("month"), S(<<".">>), P("day")>>,
              O(Undef, "2-digit", "2-digit", "numeric"), FALSE),
      dmy_dot |->
          Def(<<P("day"), S(<<".">>), P("month"), S(<<".">>), P("year")>>,
              O(Undef, "2-digit", "2-digit", "numeric"), FALSE),
      full_long |->
          Def(<<P("weekday"), S(<<",", " ">>), P("month"), P("day"),
                S(<<",", " ">>), P("year")>>,
              O("long", "long", "numeric", "numeric"), FALSE),
      weekday_day_ordinal |->
          Def(<<P("weekday"), P("day")>>, O("long", Undef, "numeric", Undef), TRUE),
      weekday_month_day_year_ordinal |->
          Def(<<P("weekday"), P("month"), P("day"), P("year")>>,
              O("long", "long", "numeric", "numeric"), TRUE),
      iso_with_weekday |->
          Def(<<P("weekday"), S(<<" ">>), P("year"), S(<<"-">>), P("month"),
                S(<<"-">>), P("day")>>,
              O("short", "2-digit", "2-digit", "numeric"), FALSE),
      custom |-> Def(<<>>, O(Undef, Undef, Undef, Undef), FALSE) ]

PresetNames == DOMAIN PRESETS

\* getOrdinalSuffix without the 11..13 exception
getOrdinalSuffixLastDigitOnly(day) ==
    CASE day % 10 = 1 -> DecStr(day) \o <<"s", "t">>
      [] day % 10 = 2 -> DecStr(day) \o <<"n", "d">>
      [] day % 10 = 3 -> DecStr(day) \o <<"r", "d">>
      [] OTHER -> DecStr(day) \o <<"t", "h">>

getOrdinalSuffix(day) ==
    LET v == day % 100
    IN  IF v >= 11 /\ v <= 13 THEN DecStr(day) \o <<"t", "h">>
        ELSE CASE day % 10 = 1 -> DecStr(day) \o <<"s", "t">>
               [] day % 10 = 2 -> DecStr(day) \o <<"n", "d">>
               [] day % 10 = 3 -> DecStr(day) \o <<"r", "d">>
               [] OTHER -> DecStr(day) \o <<"t", "h">>

\* props.format of a named preset (the custom-only fields unset)
PresetFormat(p) ==
    [ preset |-> p, year |-> FALSE, yearFormat |-> Undef, month |-> FALSE,
      monthFormat |-> Undef, day |-> FALSE, dayFormat |-> Undef,
      weekday |-> FALSE, weekdayFormat |-> Undef, separatorStyle |-> Undef ]

buildFormatter(locale, timezone, f, host, pads) ==
    IF f.preset # "custom"
    THEN LET o == PRESETS[f.preset].options
         IN  DateTimeFormat(locale,
                 [NoOpts EXCEPT !.timeZone = timezone, !.weekday = o.weekday,
                                !.month = o.month, !.day = o.day, !.year = o.year],
                 host, pads)
    ELSE DateTimeFormat(locale,
             [NoOpts EXCEPT
                 !.timeZone = timezone,
                 !.year = IF f.year /\ f.yearFormat # Undef THEN f.yearFormat ELSE Undef,
                 !.month = IF f.month /\ f.monthFormat # Undef THEN f.monthFormat ELSE Undef,
                 !.day = IF f.day /\ f.dayFormat # Undef /\ f.dayFormat # "ordinal"
                         THEN (IF f.dayFormat = "2-digit" THEN "2-digit" ELSE "numeric")
                         ELSE Undef,
                 !.weekday = IF f.weekday /\ f.weekdayFormat # Undef
                             THEN f.weekdayFormat ELSE Undef],
             host, pads)

extractParts(d, fmt) ==
    LET ps == formatToParts(fmt, d)
    IN  [k \in DOMAIN ps \cap {"year", "month", "day", "weekday"} |-> ps[k]]

SepMap(style) ==
    CASE style = "space" -> <<" ">>
      [] style = "slash" -> <<"/">>
      [] style = "dash" -> <<"-">>
      [] style = "comma-space" -> <<",", " ">>

\* buildSequence, were it to push the separator after the last part too
buildSequenceSepAfterEach(f) ==
    IF f.preset # "custom" THEN PRESETS[f.preset].order
    ELSE LET sep == SepMap(IF f.separatorStyle = Undef THEN "space" ELSE f.separatorStyle)
             order == (IF f.weekday THEN <<"weekday">> ELSE <<>>)
                      \o (IF f.month THEN <<"month">> ELSE <<>>)
                      \o (IF f.day THEN <<"day">> ELSE <<>>)
                      \o (IF f.year THEN <<"year">> ELSE <<>>)
         IN  IF Len(order) <= 1 THEN [i \in 1..Len(order) |-> P(order[i])]
             ELSE [i \in 1..(2 * Len(order)) |->
                      IF i % 2 = 1 THEN P(order[(i + 1) \div 2]) ELSE S(sep)]

buildSequence(f) ==
    IF f.preset # "custom" THEN PRESETS[f.preset].order
    ELSE LET sep == SepMap(IF f.separatorStyle = Undef THEN "space" ELSE f.separatorStyle)
             order == (IF f.weekday THEN <<"weekday">> ELSE <<>>)
                      \o (IF f.month THEN <<"month">> ELSE <<>>)
                      \o (IF f.day THEN <<"day">> ELSE <<>>)
                      \o (IF f.year THEN <<"year">> ELSE <<>>)
         IN  IF Len(order) <= 1 THEN [i \in 1..Len(order) |-> P(order[i])]
             ELSE [i \in 1..(2 * Len(order) - 1) |->
                      IF i % 2 = 1 THEN P(order[(i + 1) \div 2]) ELSE S(sep)]

\* the condition under which tick and composePreview replace the day
dayIsOrdinal(f) ==
    \/ f.preset = "custom" /\ f.day /\ f.dayFormat = "ordinal"
    \/ f.preset # "custom" /\ PRESETS[f.preset].dayOrdinal

\* the day of month whose ordinal form replaces the formatted day
ordinalDay(date, host) == getDate(date, host)

\* extracted parts with the day replaced by its ordinal form where configured
\* (the body of Render's tick up to setParts, and composePreview's raw)
tickParts(date, fmt, f, host) ==
    LET raw == extractParts(date, fmt)
    IN  IF dayIsOrdinal(f)
        THEN [k \in DOMAIN raw \cup {"day"} |->
                 IF k = "day" THEN getOrdinalSuffix(ordinalDay(date, host)) ELSE raw[k]]
        ELSE raw

\* raw[token] || ''
PartOr(raw, k) == IF k \in DOMAIN raw THEN raw[k] ELSE <<>>

\* composePreview's loop, were it to put no space between adjacent parts
RECURSIVE previewLoopNoSpace(_, _, _, _, _)
previewLoopNoSpace(seq, raw, i, out, lastWasPart) ==
    IF i > Len(seq) THEN out
    ELSE IF "part" \in DOMAIN seq[i]
         THEN previewLoopNoSpace(seq, raw, i + 1, out \o PartOr(raw, seq[i].part), TRUE)
         ELSE previewLoopNoSpace(seq, raw, i + 1, out \o seq[i].sep, FALSE)

\* the seq.forEach loop of composePreview from token i on
RECURSIVE previewLoop(_, _, _, _, _)
previewLoop(seq, raw, i, out, lastWasPart) ==
    IF i > Len(seq) THEN out
    ELSE IF "part" \in DOMAIN seq[i]
         THEN previewLoop(seq, raw, i + 1,
                  (IF lastWasPart /\ Len(out) > 0 THEN out \o <<" ">> ELSE out)
                      \o PartOr(raw, seq[i].part),
                  TRUE)
         ELSE previewLoop(seq, raw, i + 1, out \o seq[i].sep, FALSE)

composePreview(date, locale, timezone, format, host, pads) ==
    LET fmt == buildFormatter(locale, timezone, format, host, pads)
    IN  IF fmt.threw THEN [threw |-> TRUE]
        ELSE LET raw == tickParts(date, fmt, format, host)
             IN  [ threw |-> FALSE, parts |-> raw,
                   text |-> previewLoop(buildSequence(format), raw, 1, <<>>, FALSE) ]

----------------------------------------------------------------------------
(* Digital / flip clock: formatter, parts and sections *)

ORDERED_UNITS == <<"year", "month", "day", "hour", "minute", "second", "hours_am_pm">>

\* pad2 without the leading zero
pad2Unpadded(v) == v

pad2(v) == IF Len(v) = 1 THEN <<"0">> \o v ELSE v

isWeekdayFormat(f) == f \in {"short", "long", "narrow"}

buildDateFormatter(locale, timezone, show, host, pads) ==
    LET dayIsWeekday == show.day /\ isWeekdayFormat(show.dayFormat)
    IN  DateTimeFormat(locale,
            [ timeZone |-> timezone,
              hourCycle |-> IF show.hourFormat = "24" THEN "h23" ELSE "h12",
              year |-> IF show.year
                       THEN (IF show.yearFormat = Undef THEN "2-digit" ELSE show.yearFormat)
                       ELSE Undef,
              month |-> IF show.month
                        THEN (IF show.monthFormat = Undef THEN "2-digit" ELSE show.monthFormat)
                        ELSE Undef,
              day |-> IF show.day /\ show.dayFormat = "2-digit" THEN "2-digit" ELSE Undef,
              weekday |-> IF dayIsWeekday /\ isWeekdayFormat(show.dayFormat)
                          THEN show.dayFormat ELSE Undef,
              hour |-> IF show.hour THEN "2-digit" ELSE Undef,
              minute |-> IF show.minute THEN "2-digit" ELSE Undef,
              second |-> IF show.second THEN "2-digit" ELSE Undef ],
            host, pads)

\* extractParts of the clock: weekday is stored as day, dayPeriod as hours_am_pm
dcExtractParts(d, fmt) ==
    LET ps == formatToParts(fmt, d)
        keys == (DOMAIN ps \cap {"year", "month", "day", "hour", "minute", "second"})
                  \cup (IF "weekday" \in DOMAIN ps THEN {"day"} ELSE {})
                  \cup (IF "dayPeriod" \in DOMAIN ps THEN {"hours_am_pm"} ELSE {})
    IN  [k \in keys |->
            IF k = "day" /\ "weekday" \in DOMAIN ps THEN ps["weekday"]
            ELSE IF k = "hours_am_pm" THEN ps["dayPeriod"]
            ELSE ps[k]]

RECURSIVE FilterSeq(_, _)
FilterSeq(seq, keep) ==
    IF seq = <<>> THEN <<>>
    ELSE (IF Head(seq) \in keep THEN <<Head(seq)>> ELSE <<>>) \o FilterSeq(Tail(seq), keep)

\* show[k] for a unit key
Shown(show, k) ==
    CASE k = "year" -> show.year
      [] k = "month" -> show.month
      [] k = "day" -> show.day
      [] k = "hour" -> show.hour
      [] k = "minute" -> show.minute
      [] k = "second" -> show.second
      [] k = "hours_am_pm" -> show.hours_am_pm /\ show.hourFormat = "12"

\* enabledUnits, were AM/PM to follow its switch alone
enabledUnitsAmPmAlways(show) ==
    FilterSeq(ORDERED_UNITS, {k \in {"year", "month", "day", "hour", "minute", "second",
                                      "hours_am_pm"} :
                                 IF k = "hours_am_pm" THEN show.hours_am_pm
                                 ELSE Shown(show, k)})

enabledUnits(show) ==
    FilterSeq(ORDERED_UNITS, {k \in {"year", "month", "day", "hour", "minute", "second",
                                      "hours_am_pm"} : Shown(show, k)})

\* the value of unit k as buildInitialSections and applyTick compute it from
\* the extracted parts (the same statements in both)
unitValue(k, parts, show, t, host) ==
    LET v0 == IF k = "hours_am_pm"
              THEN (IF PartOr(parts, k) # <<>> THEN parts[k]
                    ELSE IF getHours(t, host) < 12 THEN <<"A", "M">> ELSE <<"P", "M">>)
              ELSE PartOr(parts, k)
        v1 == IF /\ k = "month"
                 /\ show.month
                 /\ show.monthFormat \in {Undef, "2-digit"}
                 /\ Len(v0) = 1
              THEN pad2(v0) ELSE v0
        v2 == IF k = "day" /\ show.day /\ show.dayFormat = "2-digit" /\ Len(v1) = 1
              THEN pad2(v1) ELSE v1
    IN  IF k \in {"hour", "minute", "second"} /\ Len(v2) = 1 THEN pad2(v2) ELSE v2

\* [[k, val.split("")], ...] as a sequence of records
buildInitialSections(now, enabled, show, fmt, host) ==
    LET parts == dcExtractParts(now, fmt)
    IN  [i \in 1..Len(enabled) |->
            [key |-> enabled[i], digits |-> unitValue(enabled[i], parts, show, now, host)]]

\* the values applyTick hands, digit by digit, to the updaters of each unit
tickValues(current, enabled, show, fmt, host) ==
    LET parts == dcExtractParts(current, fmt)
    IN  [i \in 1..Len(enabled) |->
            [key |-> enabled[i], digits |-> unitValue(enabled[i], parts, show, current, host)]]

----------------------------------------------------------------------------
(* What one render of each widget computes, or that it throws *)

\* props.timezone.override === "user-settings" ? cfg?.time_zone : override
effectiveZone(cfg, override) ==
    IF override = "user-settings" THEN cfg.time_zone ELSE override

\* DateText Render up to the effect
dtRender(cfg, override, format, hasNav, navLang, host, pads) ==
    LET timezone == effectiveZone(cfg, override)
        l == getLocale(cfg.language, hasNav, navLang)
    IN  IF l.threw THEN [threw |-> TRUE]
        ELSE LET fmt == buildFormatter(l.locale, timezone, format, host, pads)
             IN  IF fmt.threw THEN [threw |-> TRUE]
                 ELSE [ threw |-> FALSE, fellBack |-> FALSE, timezone |-> timezone,
                        locale |-> l.locale, fmt |-> fmt, seq |-> buildSequence(format) ]

\* digital / flip clock Render up to the effect
dcRender(cfg, override, show, mountNow, hasNav, navLang, host, pads) ==
    LET timezone == effectiveZone(cfg, override)
        l == getLocale(cfg.language, hasNav, navLang)
    IN  IF l.threw THEN [threw |-> TRUE]
        ELSE LET fmt == buildDateFormatter(l.locale, timezone, show, host, pads)
             IN  IF fmt.threw THEN [threw |-> TRUE]
                 ELSE [ threw |-> FALSE, fellBack |-> FALSE, timezone |-> timezone,
                        locale |-> l.locale, fmt |-> fmt,
                        enabled |-> enabledUnits(show),
                        initSections |->
                            buildInitialSections(mountNow, enabledUnits(show), show, fmt, host) ]

\* parseInt(str, 10) of a string of digits
parseInt(cs) == DecValue(cs)

\* the value under which the analog clock's hands start; rotations are kept
\* in whole units: the hour hand in 1/120 degree, the minute hand in 1/10
\* degree, the second hand in degrees (instants are whole seconds)
ZeroOffsets ==
    [ hourDelay |-> 0, minuteDelay |-> 0, secondDelay |-> 0,
      hourRotation120 |-> 0, minuteRotation10 |-> 0, secondRotation |-> 0 ]

\* AnalogClockPrivate's useMemo: the try block, and the catch returning zeros;
\* timezone is the destructured prop with its default "user-settings"
acOffsets(locale, timezoneProp, now, hasNav, navLang, host, pads) ==
    LET timezone == IF timezoneProp = Undef THEN "user-settings" ELSE timezoneProp
        l == getLocale(locale, hasNav, navLang)
        formatter == IF l.threw THEN [threw |-> TRUE]
                     ELSE DateTimeFormat(l.locale,
                              [NoOpts EXCEPT !.hour = "2-digit", !.minute = "2-digit",
                                             !.second = "2-digit", !.hourCycle = "h12",
                                             !.timeZone = timezone],
                              host, pads)
    IN  IF formatter.threw
        THEN [threw |-> FALSE, fellBack |-> TRUE, timezone |-> timezone,
              offsets |-> ZeroOffsets]
        ELSE LET parts == formatToParts(formatter, now)
                 hour == parseInt(parts["hour"])
                 minute == parseInt(parts["minute"])
                 second == parseInt(parts["second"])
                 hour12 == hour % 12
             IN  [ threw |-> FALSE, fellBack |-> FALSE, timezone |-> timezone,
                   offsets |->
                     [ hourDelay |-> 0 - (hour12 * 3600 + minute * 60 + second),
                       minuteDelay |-> 0 - (minute * 60 + second),
                       secondDelay |-> 0 - second,
                       hourRotation120 |-> hour12 * 3600 + minute * 60 + second,
                       minuteRotation10 |-> minute * 60 + second,
                       secondRotation |-> second * 6 ] ]

\* analog clock Render: the timezone and locale handed to AnalogClockPrivate
acRender(cfg, override, now, hasNav, navLang, host, pads) ==
    acOffsets(cfg.language, effectiveZone(cfg, override), now, hasNav, navLang,
              host, pads)

----------------------------------------------------------------------------
(* Configurations *)

\* the clock's props.show with the defaults of its field schema
DefaultShow ==
    [ hourFormat |-> "12", year |-> FALSE, yearFormat |-> "2-digit",
      month |-> FALSE, monthFormat |-> "2-digit", day |-> FALSE, dayFormat |-> "2-digit",
      hour |-> TRUE, minute |-> TRUE, second |-> TRUE, hours_am_pm |-> TRUE,
      hoursAmPmFormat |-> "scaled", hoursAmPmPosition |-> "bottom" ]

\* useConfig() before the host configuration is there: cfg?.x is undefined
NoCfg == [language |-> UndefStr, time_zone |-> Undef]

\* useLocales() before the host's strings are there
NoLocales ==
    [k \in {"am", "pm", "year", "month", "day", "hour", "minute", "second",
             "hours_am_pm"} |-> <<>>]

\* what the label and marker calls read, while no such call is made
DrawIdle ==
    /\ rLocales = NoLocales
    /\ rLabelsShow = TRUE
    /\ rStyleMode = "digital"
    /\ rTicks = "minute"

\* the variables of the render specification while another one runs
RenderIdle ==
    /\ rCfg = NoCfg
    /\ rOverride = "user-settings"
    /\ rFormat = PresetFormat("full_long")
    /\ rShow = DefaultShow
    /\ rNow = 0
    /\ rOut = [op |-> "none"]
    /\ DrawIdle

----------------------------------------------------------------------------
(* The page: widget instances, their DOM and the window's timers *)

DcInst == {"dc1", "dc2"}
DtInst == {"dt1", "dt2"}
AcInst == {"ac1"}

UnitKeys == {ORDERED_UNITS[n] : n \in 1..Len(ORDERED_UNITS)}

\* new Date() read by the calendar: whole seconds of the page's clock
Sec(ms) == ms \div 1000

\* <span class="ha-dc__digit_digital">{d}</span>
Span(id, d) == [id |-> id, kind |-> "span", text |-> d]

\* <FlipDigit initial={d}/> on mount: four faces showing d, currentRef and
\* nextRef holding d, the card not flipped
Flip(id, d) ==
    [ id |-> id, kind |-> "flip", nextAbove |-> d, currentBelow |-> d, front |-> d,
      back |-> d, currentRef |-> d, nextRef |-> d, flipped |-> FALSE ]

\* updateDigit whose immediate branch leaves the refs alone
updateDigitFacesOnly(e, next, immediate) ==
    IF next = e.currentRef THEN e
    ELSE IF immediate
         THEN [e EXCEPT !.nextAbove = next, !.back = next, !.currentBelow = next,
                        !.front = next]
         ELSE [e EXCEPT !.nextRef = next, !.nextAbove = next, !.back = next,
                        !.flipped = TRUE]

\* FlipDigit's updateDigit(next, opts) on the digit e
updateDigit(e, next, immediate) ==
    IF next = e.currentRef THEN e
    ELSE IF immediate
         THEN [e EXCEPT !.currentRef = next, !.nextRef = next, !.nextAbove = next,
                        !.back = next, !.currentBelow = next, !.front = next]
         ELSE [e EXCEPT !.nextRef = next, !.nextAbove = next, !.back = next,
                        !.flipped = TRUE]

\* handleTransitionEnd that leaves the front face alone
handleTransitionEndKeepsFront(e) ==
    [e EXCEPT !.currentRef = e.nextRef, !.currentBelow = e.nextRef, !.flipped = FALSE]

\* FlipDigit's handleTransitionEnd on the digit e
handleTransitionEnd(e) ==
    [e EXCEPT !.currentRef = e.nextRef, !.currentBelow = e.nextRef,
              !.front = e.nextRef, !.flipped = FALSE]

\* the updater the digital-mode span registers
spanUpdater(e, next, immediate) ==
    IF immediate THEN [e EXCEPT !.text = next]
    ELSE IF e.text # next THEN [e EXCEPT !.text = next] ELSE e

\* an updater is a closure over one element; here the element's identity
\* stands for it, and calling it acts on that element while it is in the
\* document (a write to a removed element shows nowhere)
Attached(dom, id) ==
    /\ id.idx <= Len(dom[id.key])
    /\ dom[id.key][id.idx].id = id

\* an updater, were it to put a new element in the digit's place as a
\* render of the digit would
callUpdaterRemount(dom, id, next, immediate) ==
    IF ~Attached(dom, id) THEN dom
    ELSE [dom EXCEPT ![id.key][id.idx] =
            IF @.kind = "flip" THEN Flip([id EXCEPT !.r = @ + 1], next)
            ELSE Span([id EXCEPT !.r = @ + 1], next)]

callUpdater(dom, id, next, immediate) ==
    IF ~Attached(dom, id) THEN dom
    ELSE [dom EXCEPT ![id.key][id.idx] =
            IF @.kind = "flip" THEN updateDigit(@, next, immediate)
            ELSE spanUpdater(@, next, immediate)]

\* the digits of unit k in a list of sections, <<>> when k is not in it
DigitsOf(sections, k) ==
    IF \E n \in 1..Len(sections) : sections[n].key = k
    THEN sections[CHOOSE n \in 1..Len(sections) : sections[n].key = k].digits
    ELSE <<>>

EmptyDom == [k \in UnitKeys |-> <<>>]
NoVdom == [sections |-> <<>>, styleMode |-> "digital"]

\* React's commit of Render's output: units are keyed by their unit key and
\* digits by their index; a digit whose element type stays (span or
\* FlipDigit) keeps its element, and React rewrites its text children only
\* when the digit rendered differs from the digit rendered before; every
\* other digit is a new element showing the rendered digit.  r numbers the
\* render that creates an element.
commitDom(vdom, dom, sections, styleMode, r) ==
    [k \in UnitKeys |->
        LET ds == DigitsOf(sections, k)
            old == DigitsOf(vdom.sections, k)
        IN  [n \in 1..Len(ds) |->
                IF vdom.styleMode = styleMode /\ n <= Len(old)
                THEN LET e == dom[k][n]
                     IN  IF old[n] = ds[n] THEN e
                         ELSE IF e.kind = "span" THEN [e EXCEPT !.text = ds[n]]
                         ELSE [e EXCEPT !.nextAbove = ds[n], !.currentBelow = ds[n],
                                        !.front = ds[n], !.back = ds[n]]
                ELSE IF styleMode = "flip"
                     THEN Flip([r |-> r, key |-> k, idx |-> n], ds[n])
                     ELSE Span([r |-> r, key |-> k, idx |-> n], ds[n])]]

\* after each commit every digit in the document registers an updater: a
\* span through its ref callback, a FlipDigit through its effect, both of
\* which are new functions in every render;
\* (digitUpdatersRef.current[key] ||= []).push(fn)
registerUpdaters(updaters, dom) ==
    [k \in UnitKeys |-> updaters[k] \o [n \in 1..Len(dom[k]) |-> dom[k][n].id]]

\* the updater calls of one applyTick, in order: for each enabled unit the
\* digit at index idx goes to updaters[idx] when there is one
RECURSIVE tickCalls(_, _, _, _)
tickCalls(values, updaters, s, n) ==
    IF s > Len(values) THEN <<>>
    ELSE IF n > Len(values[s].digits) THEN tickCalls(values, updaters, s + 1, 1)
    ELSE (IF n <= Len(updaters[values[s].key])
          THEN <<[id |-> updaters[values[s].key][n], digit |-> values[s].digits[n]]>>
          ELSE <<>>)
         \o tickCalls(values, updaters, s, n + 1)

RECURSIVE runCalls(_, _, _, _)
runCalls(dom, calls, c, immediate) ==
    IF c > Len(calls) THEN dom
    ELSE runCalls(callUpdater(dom, calls[c].id, calls[c].digit, immediate),
                  calls, c + 1, immediate)

\* applyTick, were it never to pass the immediate option
applyTickNeverImmediate(tick, updaters, firstRun, dom, current, host) ==
    runCalls(dom,
             tickCalls(tickValues(current, tick.enabled, tick.show, tick.fmt, host),
                       updaters, 1, 1),
             1, FALSE)

\* applyTick(enabled, show, digitUpdatersRef, firstRunRef, fmt) at the instant
\* current: the document after it
applyTick(tick, updaters, firstRun, dom, current, host) ==
    runCalls(dom,
             tickCalls(tickValues(current, tick.enabled, tick.show, tick.fmt, host),
                       updaters, 1, 1),
             1, firstRun)

\* const delay = 1000 - (nowMs % 1000)
delay(nowMs) == 1000 - (nowMs % 1000)

NoEffect == [timeoutId |-> 0, intervalId |-> 0]

\* the timer effect of the clock, were it to start the interval at once,
\* next to the alignment timeout
dcEffectStartEager(ts, i, id, at, mountNow, tick) ==
    ts \cup {[ id |-> id, owner |-> i, kind |-> "timeout", due |-> at + delay(mountNow),
               period |-> 0, tick |-> tick ],
             [ id |-> 0 - id, owner |-> i, kind |-> "interval", due |-> at + 1000,
               period |-> 1000, tick |-> tick ]}

\* the timer effect of the clock: the timeout it sets
dcEffectStart(ts, i, id, at, mountNow, tick) ==
    ts \cup {[ id |-> id, owner |-> i, kind |-> "timeout", due |-> at + delay(mountNow),
               period |-> 0, tick |-> tick ]}

\* the timeout's callback, after its tick: setInterval(tick, 1000)
dcStartInterval(ts, t, id, at) ==
    (ts \ {t}) \cup {[ id |-> id, owner |-> t.owner, kind |-> "interval",
                       due |-> at + 1000, period |-> 1000, tick |-> t.tick ]}

\* the cleanup of the clock's timer effect, were it to clear the timeout only
dcCleanupTimeoutOnly(ts, eff) ==
    {t \in ts : t.id # eff.timeoutId}

\* the cleanup of the clock's timer effect:
\* clearTimeout(timeoutId); if (intervalRef.current) clearInterval(intervalRef.current)

dcCleanup(ts, eff) ==
    {t \in ts : t.id # eff.timeoutId /\ (eff.intervalId = 0 \/ t.id # eff.intervalId)}

\* the dependencies of the clock's timer effect
dcDeps(cfg, props) ==
    [timezone |-> effectiveZone(cfg, props.override), show |-> props.show,
     styleMode |-> props.styleMode]

\* props.format while no DateText uses it, and a formatter while none is built
NoFormat == PresetFormat("full_long")
NoFmt == DateTimeFormat(UndefStr, NoOpts, "Etc/UTC", TRUE)

\* what a timer's callback closes over: applyTick's arguments for the clock,
\* fmt and props.format for DateText
DcTick(enabled, show, fmt) ==
    [enabled |-> enabled, show |-> show, fmt |-> fmt, format |-> NoFormat]
DtTick(fmt, format) ==
    [enabled |-> <<>>, show |-> DefaultShow, fmt |-> fmt, format |-> format]

\* DateText's clearInterval, were it left out
dtCleanupNothing(ts, ref) == ts

\* DateText: if (intervalRef.current) window.clearInterval(intervalRef.current),
\* in the effect's body and in its cleanup; a ref holding null reads 0 here

dtCleanup(ts, ref) ==
    IF ref = 0 THEN ts ELSE {t \in ts : t.id # ref}

\* DateText's effect after its tick():
\* if (intervalRef.current) clearInterval(...); intervalRef.current = setInterval(tick, 60_000)
dtStartInterval(ts, i, id, at, ref, tick) ==
    dtCleanup(ts, ref) \cup {[ id |-> id, owner |-> i, kind |-> "interval",
                               due |-> at + 60000, period |-> 60000, tick |-> tick ]}

\* widget instances before they are placed on the page
DcNew ==
    [ phase |-> "new", cfg |-> NoCfg,
      props |-> [override |-> "user-settings", show |-> DefaultShow, styleMode |-> "digital"],
      mountNow |-> 0, firstRun |-> TRUE, vdom |-> NoVdom, dom |-> EmptyDom,
      updaters |-> EmptyDom, effect |-> NoEffect, renders |-> 0 ]

DtNew ==
    [ phase |-> "new", cfg |-> NoCfg,
      props |-> [override |-> "user-settings", format |-> NoFormat],
      fmt |-> NoFmt, parts |-> <<>>, intervalRef |-> 0, renders |-> 0 ]

AcNew ==
    [ phase |-> "new", cfg |-> NoCfg, props |-> [override |-> "user-settings"],
      timezone |-> Undef, offsets |-> ZeroOffsets, renders |-> 0 ]

\* the FlipDigit looked at by itself, while none is
FlipIdle ==
    /\ fd = Flip([r |-> 0, key |-> "second", idx |-> 1], "0")
    /\ fdCalls = <<>>

\* no widget is placed on the page
NoWidgets ==
    /\ advances = 0
    /\ timers = {}
    /\ nextTimerId = 1
    /\ dc = [i \in DcInst |-> DcNew]
    /\ dt = [i \in DtInst |-> DtNew]
    /\ ac = [i \in AcInst |-> AcNew]

\* the page before any widget is placed on it
PageEmpty == NoWidgets /\ FlipIdle

PageIdle == clock = 0 /\ PageEmpty

\* the composer's variables while another specification runs
ComposeIdle ==
    /\ cInstant = 0 /\ cLocale = EnUS /\ cZone = Undef
    /\ cFormat = PresetFormat("full_long")
    /\ cDay = 0 /\ cOrd = <<>> /\ cLast = [op |-> "none"]

----------------------------------------------------------------------------
(* The composer as a function of its inputs: specification SpecCompose.     *)
(* The declared inputs (instant, locale, timezone, format) are drawn once;  *)
(* the machine's own zone may change between two evaluations.               *)

Instants == {(d - 1) * SecondsPerDay + 12 * 3600 : d \in 0..(NumDays - 1)}
Locales == {EnUS, DeDE}
HostZones == {"Etc/UTC", "Pacific/Auckland"}
ComposeZones == {Undef, "Etc/UTC", "America/Los_Angeles"}

CustomFormats ==
    {f \in [ preset : {"custom"}, year : BOOLEAN, yearFormat : {"numeric"},
             month : BOOLEAN, monthFormat : {"long"},
             day : BOOLEAN, dayFormat : {"numeric", "ordinal"},
             weekday : BOOLEAN, weekdayFormat : {"short"},
             separatorStyle : {Undef, "comma-space"} ] :
        /\ ~f.day => f.dayFormat = "numeric"
        /\ ~(f.weekday /\ f.year) => f.separatorStyle = Undef}

Formats == {PresetFormat(p) : p \in PresetNames \ {"custom"}} \cup CustomFormats

NoEval == [op |-> "none"]

ComposeInit ==
    /\ hostZone \in HostZones
    /\ icuPads = TRUE
    /\ cInstant \in Instants
    /\ cLocale \in Locales
    /\ cZone \in ComposeZones
    /\ cFormat \in Formats
    /\ cDay = 0
    /\ cOrd = <<>>
    /\ cLast = NoEval
    /\ hasNavigator = TRUE
    /\ navLanguage = EnUS
    /\ RenderIdle
    /\ PageIdle

\* what an evaluation records of its getOrdinalSuffix call
OrdinalCall ==
    /\ cDay' = IF dayIsOrdinal(cFormat) THEN ordinalDay(cInstant, hostZone) ELSE 0
    /\ cOrd' = IF dayIsOrdinal(cFormat)
               THEN getOrdinalSuffix(ordinalDay(cInstant, hostZone)) ELSE <<>>

\* Render's tick: const extracted = extractParts(now, fmt) ...; setParts(extracted)
ComposeTick ==
    LET fmt == buildFormatter(cLocale, cZone, cFormat, hostZone, icuPads)
    IN  /\ ~fmt.threw
        /\ cLast' = [ op |-> "tick", zone |-> fmt.zone,
                      parts |-> tickParts(cInstant, fmt, cFormat, hostZone),
                      text |-> <<>> ]
        /\ OrdinalCall
        /\ UNCHANGED <<envVars, cInstant, cLocale, cZone, cFormat, renderVars, pageVars>>

\* composePreview(date, locale, timezone, format)
ComposePreview ==
    LET fmt == buildFormatter(cLocale, cZone, cFormat, hostZone, icuPads)
        r == composePreview(cInstant, cLocale, cZone, cFormat, hostZone, icuPads)
    IN  /\ ~r.threw
        /\ cLast' = [ op |-> "preview", zone |-> fmt.zone,
                      parts |-> r.parts, text |-> r.text ]
        /\ OrdinalCall
        /\ UNCHANGED <<envVars, cInstant, cLocale, cZone, cFormat, renderVars, pageVars>>

\* the machine's zone changes (the dashboard is opened on another machine, or
\* the operating system's zone is changed)
ChangeHost ==
    /\ \E z \in HostZones \ {hostZone} : hostZone' = z
    /\ UNCHANGED <<icuPads, hasNavigator, navLanguage, composeVars, renderVars, pageVars>>

ComposeNext == ComposeTick \/ ComposePreview \/ ChangeHost

SpecCompose == ComposeInit /\ [][ComposeNext]_vars

----------------------------------------------------------------------------
(* Properties of the composer *)

IsDecimal(cs) ==
    /\ Len(cs) >= 1
    /\ \A i \in 1..Len(cs) : \E d \in 0..9 : DigitChars[d + 1] = cs[i]
    /\ (Len(cs) > 1 => cs[1] # "0")

\* the English ordinal suffix of a day of month, written out
EnglishSuffix(d) ==
    CASE d \in {1, 21, 31} -> <<"s", "t">>
      [] d \in {2, 22} -> <<"n", "d">>
      [] d \in {3, 23} -> <<"r", "d">>
      [] d \in (4..20) \cup (24..30) -> <<"t", "h">>

IsOrdinalOf(str, d) ==
    /\ Len(str) >= 3
    /\ IsDecimal(SubSeq(str, 1, Len(str) - 2))
    /\ DecValue(SubSeq(str, 1, Len(str) - 2)) = d
    /\ SubSeq(str, Len(str) - 1, Len(str)) = EnglishSuffix(d)

\* C1: for every day 1..31, getOrdinalSuffix returns the decimal day followed
\* by the suffix of the English ordinal rule (th for 11, 12, 13; otherwise st,
\* nd, rd for a last digit of 1, 2, 3; th for every other last digit).
C1_OrdinalSuffixRule ==
    cDay # 0 => (cDay \in 1..31 /\ IsOrdinalOf(cOrd, cDay))

C1_Witness ==
    /\ cLast.op = "tick"
    /\ cDay = 12
    /\ cOrd = <<"1", "2", "t", "h">>

\* the day of month of the instant in the zone the formatter resolved
ZoneDay == Civil(cInstant, ZoneOffset(cLast.zone)).day

\* C2: with an ordinal day, the day produced by a tick and by composePreview
\* is the ordinal form of the day of month that the instant has in the
\* resolved timezone (the day number a numeric day shows for it).
C2_OrdinalDayInResolvedZone ==
    (cLast.op \in {"tick", "preview"} /\ dayIsOrdinal(cFormat))
        => IsOrdinalOf(cLast.parts["day"], ZoneDay)

\* C3: two evaluations of the composer on the same instant, locale, timezone
\* and format give the same part values and the same string, whatever the
\* machine's own zone is at each of them.
C3_SameInputsSameOutput ==
    [][ (cZone # Undef /\ cLast.op # "none" /\ cLast'.op = cLast.op)
            => (cLast'.parts = cLast.parts /\ cLast'.text = cLast.text) ]_vars

----------------------------------------------------------------------------
(* getLocale and one render of each widget: specification SpecRender.       *)
(* The host's language and time zone, the override and the environment are  *)
(* drawn once; each action is one call.                                     *)

LanguageInputs ==
    { UndefStr, <<>>,
      <<"e", "n">>, <<"d", "e">>, <<"E", "N">>,
      <<"e", "n", "-", "u", "s">>, <<"D", "E", "-", "d", "e">>, EnUS, DeDE,
      <<"e", "n", "_", "U", "S">>, <<"e", "n", "-">>, <<"e">>, <<"e", "n", "-", "U", "S", "A">> }

NavigatorLanguages == {EnUS, <<"d", "e">>, UndefStr}

\* a zone of a newer time zone database than the platform's
UnknownZone == "America/Ciudad_Juarez"

CfgZones == {Undef, "Etc/UTC", UnknownZone}
Overrides == {"user-settings", "Pacific/Auckland", UnknownZone}

RenderInit ==
    /\ hostZone \in HostZones
    /\ icuPads = TRUE
    /\ hasNavigator \in BOOLEAN
    /\ navLanguage \in NavigatorLanguages
    /\ rCfg \in [language : LanguageInputs, time_zone : CfgZones]
    /\ rOverride \in Overrides
    /\ rFormat = PresetFormat("full_long")
    /\ rShow = DefaultShow
    /\ rNow = 9 * 3600 + 5 * 60 + 7
    /\ rOut = [op |-> "none"]
    /\ DrawIdle
    /\ ComposeIdle
    /\ PageIdle

RenderFrame ==
    UNCHANGED <<envVars, composeVars, rCfg, rOverride, rFormat, rShow, rNow, rLocales,
                rLabelsShow, rStyleMode, rTicks, pageVars>>

\* getLocale(cfg?.language)
CallGetLocale ==
    /\ rOut' = [op |-> "getLocale",
                out |-> getLocale(rCfg.language, hasNavigator, navLanguage)]
    /\ RenderFrame

\* DateText's Render
RenderDateText ==
    /\ rOut' = [op |-> "DateText",
                out |-> dtRender(rCfg, rOverride, rFormat, hasNavigator, navLanguage,
                                 hostZone, icuPads)]
    /\ RenderFrame

\* the digital / flip clock's Render
RenderDigitalClock ==
    /\ rOut' = [op |-> "DigitalClock",
                out |-> dcRender(rCfg, rOverride, rShow, rNow, hasNavigator, navLanguage,
                                 hostZone, icuPads)]
    /\ RenderFrame

\* the analog clock's Render
RenderAnalogClock ==
    /\ rOut' = [op |-> "AnalogClock",
                out |-> acRender(rCfg, rOverride, rNow, hasNavigator, navLanguage,
                                 hostZone, icuPads)]
    /\ RenderFrame

RenderNext == CallGetLocale \/ RenderDateText \/ RenderDigitalClock \/ RenderAnalogClock

SpecRender == RenderInit /\ [][RenderNext]_vars

\* a tag is well formed when the platform canonicalizes it
WellFormed(tag) == ~getCanonicalLocales(tag).threw

\* two tags that differ in letter case only
SameLetters(a, b) == LowerCase(a) = LowerCase(b)

\* the tag getLocale is to canonicalize: its input, or navigator.language when
\* the input is undefined or empty, or en-US when there is no navigator
TagToCanonicalize ==
    IF rCfg.language \notin {UndefStr, <<>>} THEN rCfg.language
    ELSE IF hasNavigator THEN navLanguage ELSE <<"e", "n", "-", "U", "S">>

\* C9: getLocale never throws; it returns the canonical form of a well-formed
\* tag and undefined when canonicalization fails; an undefined or empty input
\* stands for navigator.language, or for en-US when there is no navigator.
C9_GetLocaleTotal ==
    rOut.op = "getLocale" =>
        /\ ~rOut.out.threw
        /\ IF WellFormed(TagToCanonicalize)
           THEN /\ rOut.out.locale = getCanonicalLocales(TagToCanonicalize).tag
                /\ SameLetters(rOut.out.locale, TagToCanonicalize)
                /\ rOut.out.locale # UndefStr
           ELSE /\ rOut.out.locale = UndefStr
                /\ DateTimeFormat(rOut.out.locale, NoOpts, hostZone, icuPads).lang
                     = LangOf(PlatformLocale)

\* a tag whose canonicalization fails ("en_US") is answered with undefined,
\* without an exception
C9_Witness ==
    /\ rOut.op = "getLocale"
    /\ rCfg.language = <<"e", "n", "_", "U", "S">>
    /\ rOut.out = [threw |-> FALSE, locale |-> UndefStr]

\* C10: no render of a widget throws, whatever the locale and the timezone
\* identifier are: the formatter is built, or the widget falls back to a
\* default (the analog clock to zero rotations and delays).
C10_RenderNeverThrows ==
    rOut.op \in {"DateText", "DigitalClock", "AnalogClock"} =>
        /\ ~rOut.out.threw
        /\ rOut.out.fellBack => rOut.out.offsets = ZeroOffsets

----------------------------------------------------------------------------
(* The page's actions: mounting, re-rendering and unmounting a widget, the  *)
(* callbacks of its timers, the end of a flip, and the passing of time.     *)
(* A render, React's commit of it and the effects it runs are one step.     *)

\* the widgets placed on the page so far
Placed ==
    {i \in DcInst : dc[i].phase # "new"} \cup {i \in DtInst : dt[i].phase # "new"}
        \cup {i \in AcInst : ac[i].phase # "new"}

OffPage == UNCHANGED <<envVars, composeVars, renderVars, fd, fdCalls>>

\* the clock is placed on the page: first render, commit, effects
DcMount(i, inputs) ==
    /\ dc[i].phase = "new"
    /\ Cardinality(Placed) < MaxWidgets
    /\ \E inp \in inputs :
       \E r \in {dcRender(inp.cfg, inp.props.override, inp.props.show, Sec(clock),
                           hasNavigator, navLanguage, hostZone, icuPads)} :
         LET dom == commitDom(NoVdom, EmptyDom, r.initSections, inp.props.styleMode, 0)
         IN  /\ ~r.threw
             /\ dc' = [dc EXCEPT ![i] =
                         [ phase |-> "mounted", cfg |-> inp.cfg, props |-> inp.props,
                           mountNow |-> clock, firstRun |-> TRUE,
                           vdom |-> [sections |-> r.initSections,
                                     styleMode |-> inp.props.styleMode],
                           dom |-> dom, updaters |-> registerUpdaters(EmptyDom, dom),
                           effect |-> [timeoutId |-> nextTimerId, intervalId |-> 0],
                           renders |-> 0 ]]
             /\ timers' = dcEffectStart(timers, i, nextTimerId, clock, clock,
                                        DcTick(r.enabled, inp.props.show, r.fmt))
    /\ nextTimerId' = nextTimerId + 1
    /\ UNCHANGED <<clock, advances, dt, ac>>
    /\ OffPage

\* the clock renders again, with the same or with other props and host
\* configuration; the timer effect runs again when its dependencies changed
DcRerender(i, inputs) ==
    /\ dc[i].phase = "mounted"
    /\ dc[i].renders < MaxRenders
    /\ \E inp \in inputs :
       \E r \in {dcRender(inp.cfg, inp.props.override, inp.props.show,
                           Sec(dc[i].mountNow), hasNavigator, navLanguage, hostZone,
                           icuPads)} :
         LET d == dc[i]
             dom == commitDom(d.vdom, d.dom, r.initSections, inp.props.styleMode,
                              d.renders + 1)
             rerun == dcDeps(inp.cfg, inp.props) # dcDeps(d.cfg, d.props)
         IN  /\ ~r.threw
             /\ dc' = [dc EXCEPT ![i] =
                         [ d EXCEPT !.cfg = inp.cfg, !.props = inp.props,
                                    !.vdom = [sections |-> r.initSections,
                                              styleMode |-> inp.props.styleMode],
                                    !.dom = dom,
                                    !.updaters = registerUpdaters(d.updaters, dom),
                                    !.effect = IF rerun
                                               THEN [timeoutId |-> nextTimerId,
                                                     intervalId |-> 0]
                                               ELSE @,
                                    !.renders = d.renders + 1 ]]
             /\ timers' = IF rerun
                          THEN dcEffectStart(dcCleanup(timers, d.effect), i, nextTimerId,
                                             clock, d.mountNow,
                                             DcTick(r.enabled, inp.props.show, r.fmt))
                          ELSE timers
             /\ nextTimerId' = IF rerun THEN nextTimerId + 1 ELSE nextTimerId
    /\ UNCHANGED <<clock, advances, dt, ac>>
    /\ OffPage

\* the clock is removed from the page: the effect's cleanup runs and its
\* elements leave the document
DcUnmount(i) ==
    /\ dc[i].phase = "mounted"
    /\ dc' = [dc EXCEPT ![i] = [@ EXCEPT !.phase = "unmounted", !.dom = EmptyDom]]
    /\ timers' = dcCleanup(timers, dc[i].effect)
    /\ UNCHANGED <<clock, advances, nextTimerId, dt, ac>>
    /\ OffPage

\* the alignment timeout's callback: tick(); intervalRef.current = setInterval(tick, 1000)
DcTimeoutFire(i) ==
    /\ \E t \in timers :
         /\ t.owner = i /\ t.kind = "timeout" /\ t.due <= clock
         /\ dc' = [dc EXCEPT ![i] =
                     [ @ EXCEPT !.dom = applyTick(t.tick, dc[i].updaters, dc[i].firstRun,
                                                  dc[i].dom, Sec(clock), hostZone),
                                !.firstRun = FALSE,
                                !.effect = IF @.timeoutId = t.id
                                           THEN [@ EXCEPT !.intervalId = nextTimerId]
                                           ELSE @ ]]
         /\ timers' = dcStartInterval(timers, t, nextTimerId, clock)
    /\ nextTimerId' = nextTimerId + 1
    /\ UNCHANGED <<clock, advances, dt, ac>>
    /\ OffPage

\* the interval's callback: tick()
DcIntervalFire(i) ==
    /\ \E t \in timers :
         /\ t.owner = i /\ t.kind = "interval" /\ t.due <= clock
         /\ dc' = [dc EXCEPT ![i] =
                     [ @ EXCEPT !.dom = applyTick(t.tick, dc[i].updaters, dc[i].firstRun,
                                                  dc[i].dom, Sec(clock), hostZone),
                                !.firstRun = FALSE ]]
         /\ timers' = (timers \ {t}) \cup {[t EXCEPT !.due = clock + t.period]}
    /\ UNCHANGED <<clock, advances, nextTimerId, dt, ac>>
    /\ OffPage

UnitIndex(k) == CHOOSE n \in 1..Len(ORDERED_UNITS) : ORDERED_UNITS[n] = k

FlippedSlots(dom) ==
    UNION {{<<k, n>> : n \in {m \in 1..Len(dom[k]) :
                                  dom[k][m].kind = "flip" /\ dom[k][m].flipped}} :
           k \in UnitKeys}

\* the first flipped digit in document order
FirstFlipped(dom) ==
    CHOOSE s \in FlippedSlots(dom) :
        \A o \in FlippedSlots(dom) :
            \/ UnitIndex(s[1]) < UnitIndex(o[1])
            \/ UnitIndex(s[1]) = UnitIndex(o[1]) /\ s[2] <= o[2]

\* a card's transition ends: handleTransitionEnd.  The handlers of different
\* digits touch different elements and commute, so the events of the cards
\* flipped together are taken in document order.
DcTransitionEnd(i) ==
    /\ dc[i].phase = "mounted"
    /\ FlippedSlots(dc[i].dom) # {}
    /\ LET s == FirstFlipped(dc[i].dom)
       IN  dc' = [dc EXCEPT ![i].dom[s[1]][s[2]] = handleTransitionEnd(@)]
    /\ UNCHANGED <<clock, advances, timers, nextTimerId, dt, ac>>
    /\ OffPage

\* DateText is placed on the page: first render (parts from useState's
\* initializer), then the effect: tick() and setInterval(tick, 60_000)
DtMount(i, inputs) ==
    /\ dt[i].phase = "new"
    /\ Cardinality(Placed) < MaxWidgets
    /\ \E inp \in inputs :
       \E r \in {dtRender(inp.cfg, inp.props.override, inp.props.format,
                           hasNavigator, navLanguage, hostZone, icuPads)} :
             /\ ~r.threw
             /\ dt' = [dt EXCEPT ![i] =
                         [ phase |-> "mounted", cfg |-> inp.cfg, props |-> inp.props,
                           fmt |-> r.fmt,
                           parts |-> tickParts(Sec(clock), r.fmt, inp.props.format, hostZone),
                           intervalRef |-> nextTimerId, renders |-> 0 ]]
             /\ timers' = dtStartInterval(timers, i, nextTimerId, clock, 0,
                                          DtTick(r.fmt, inp.props.format))
    /\ nextTimerId' = nextTimerId + 1
    /\ UNCHANGED <<clock, advances, dc, ac>>
    /\ OffPage

\* DateText renders again; useMemo builds a new formatter when the locale,
\* the timezone or the props.format object changed (fresh: the parent hands
\* a new object with the same content), and the effect runs again with it
DtRerender(i, inputs) ==
    /\ dt[i].phase = "mounted"
    /\ dt[i].renders < MaxRenders
    /\ \E inp \in inputs, fresh \in BOOLEAN :
       \E r \in {dtRender(inp.cfg, inp.props.override, inp.props.format,
                           hasNavigator, navLanguage, hostZone, icuPads)} :
         LET d == dt[i]
             rerun == \/ fresh
                      \/ inp.props.format # d.props.format
                      \/ r.locale # getLocale(d.cfg.language, hasNavigator,
                                               navLanguage).locale
                      \/ r.timezone # effectiveZone(d.cfg, d.props.override)
         IN  /\ ~r.threw
             /\ dt' = [dt EXCEPT ![i] =
                         IF rerun
                         THEN [ d EXCEPT !.cfg = inp.cfg, !.props = inp.props,
                                         !.fmt = r.fmt,
                                         !.parts = tickParts(Sec(clock), r.fmt,
                                                             inp.props.format, hostZone),
                                         !.intervalRef = nextTimerId,
                                         !.renders = d.renders + 1 ]
                         ELSE [ d EXCEPT !.cfg = inp.cfg, !.props = inp.props,
                                         !.renders = d.renders + 1 ]]
             /\ timers' = IF rerun
                          THEN dtStartInterval(dtCleanup(timers, d.intervalRef), i,
                                               nextTimerId, clock, d.intervalRef,
                                               DtTick(r.fmt, inp.props.format))
                          ELSE timers
             /\ nextTimerId' = IF rerun THEN nextTimerId + 1 ELSE nextTimerId
    /\ UNCHANGED <<clock, advances, dc, ac>>
    /\ OffPage

\* DateText is removed from the page: the effect's cleanup
DtUnmount(i) ==
    /\ dt[i].phase = "mounted"
    /\ dt' = [dt EXCEPT ![i].phase = "unmounted"]
    /\ timers' = dtCleanup(timers, dt[i].intervalRef)
    /\ UNCHANGED <<clock, advances, nextTimerId, dc, ac>>
    /\ OffPage

\* the interval's callback: tick(), whose setParts reaches a mounted
\* component only
DtIntervalFire(i) ==
    /\ \E t \in timers :
         /\ t.owner = i /\ t.kind = "interval" /\ t.due <= clock
         /\ dt' = [dt EXCEPT ![i].parts =
                     IF dt[i].phase = "mounted"
                     THEN tickParts(Sec(clock), t.tick.fmt, t.tick.format, hostZone)
                     ELSE @]
         /\ timers' = (timers \ {t}) \cup {[t EXCEPT !.due = clock + t.period]}
    /\ UNCHANGED <<clock, advances, nextTimerId, dc, ac>>
    /\ OffPage

\* the analog clock is placed on the page: useMemo computes the hands'
\* offsets; the hands are moved by CSS animations, no timer is set
AcMount(i, inputs) ==
    /\ ac[i].phase = "new"
    /\ Cardinality(Placed) < MaxWidgets
    /\ \E inp \in inputs :
         ac' = [ac EXCEPT ![i] =
                  [ phase |-> "mounted", cfg |-> inp.cfg, props |-> inp.props,
                    timezone |-> effectiveZone(inp.cfg, inp.props.override),
                    offsets |-> acRender(inp.cfg, inp.props.override, Sec(clock),
                                         hasNavigator, navLanguage, hostZone,
                                         icuPads).offsets,
                    renders |-> 0 ]]
    /\ UNCHANGED <<clock, advances, timers, nextTimerId, dc, dt>>
    /\ OffPage

\* the analog clock renders again: the offsets are computed again only when
\* the timezone handed to it changed (useMemo's dependencies)
AcRerender(i, inputs) ==
    /\ ac[i].phase = "mounted"
    /\ ac[i].renders < MaxRenders
    /\ \E inp \in inputs :
         LET tz == effectiveZone(inp.cfg, inp.props.override)
         IN  ac' = [ac EXCEPT ![i] =
                      [ @ EXCEPT !.cfg = inp.cfg, !.props = inp.props, !.timezone = tz,
                                 !.offsets =
                                     IF tz # ac[i].timezone
                                     THEN acRender(inp.cfg, inp.props.override, Sec(clock),
                                                   hasNavigator, navLanguage, hostZone,
                                                   icuPads).offsets
                                     ELSE @,
                                 !.renders = @ + 1 ]]
    /\ UNCHANGED <<clock, advances, timers, nextTimerId, dc, dt>>
    /\ OffPage

AcUnmount(i) ==
    /\ ac[i].phase = "mounted"
    /\ ac' = [ac EXCEPT ![i].phase = "unmounted"]
    /\ UNCHANGED <<clock, advances, timers, nextTimerId, dc, dt>>
    /\ OffPage

MinDue == CHOOSE d \in {t.due : t \in timers} : \A t \in timers : d <= t.due

\* time passes, up to the next timer that is due; a due timer's callback
\* runs before time moves on
AdvanceTime ==
    /\ advances < MaxAdvances
    /\ \A t \in timers : t.due > clock
    /\ clock' = IF timers = {} THEN clock + 1000 ELSE MinDue
    /\ advances' = advances + 1
    /\ UNCHANGED <<timers, nextTimerId, dc, dt, ac>>
    /\ OffPage

----------------------------------------------------------------------------
(* One digital / flip clock through its life: specification SpecClock *)

HostCfg(lang) == [language |-> lang, time_zone |-> "Etc/UTC"]

Show24 == [DefaultShow EXCEPT !.hourFormat = "24"]
ShowDate ==
    [DefaultShow EXCEPT !.month = TRUE, !.monthFormat = Undef, !.day = TRUE,
                        !.minute = FALSE, !.second = FALSE, !.hours_am_pm = FALSE]
ShowNames == [ShowDate EXCEPT !.monthFormat = "short", !.dayFormat = "short"]

DcInput(lang, override, show, styleMode) ==
    [cfg |-> HostCfg(lang),
     props |-> [override |-> override, show |-> show, styleMode |-> styleMode]]

ClockInputs ==
    { DcInput(UndefStr, "user-settings", DefaultShow, "flip"),
      DcInput(UndefStr, "user-settings", DefaultShow, "digital"),
      DcInput(UndefStr, "user-settings", Show24, "flip"),
      DcInput(UndefStr, "Pacific/Auckland", DefaultShow, "flip"),
      DcInput(UndefStr, "user-settings", ShowDate, "digital"),
      DcInput(UndefStr, "user-settings", [ShowDate EXCEPT !.monthFormat = "2-digit"],
              "flip"),
      DcInput(<<"d", "e">>, "user-settings", ShowNames, "digital"),
      DcInput(UndefStr, "user-settings", ShowNames, "digital") }

\* 2025-10-05T09:59:58.000Z and 2025-09-30T23:59:58.300Z
StartInstants ==
    { (4 * SecondsPerDay + 9 * 3600 + 59 * 60 + 58) * 1000,
      (0 - 2) * 1000 + 300 }

ClockInit ==
    /\ hostZone = "Etc/UTC"
    /\ icuPads \in BOOLEAN
    /\ hasNavigator = TRUE
    /\ navLanguage = EnUS
    /\ ComposeIdle
    /\ RenderIdle
    /\ clock \in StartInstants
    /\ PageEmpty

ClockNext ==
    \/ DcMount("dc1", ClockInputs)
    \/ DcRerender("dc1", ClockInputs)
    \/ DcUnmount("dc1")
    \/ DcTimeoutFire("dc1")
    \/ DcIntervalFire("dc1")
    \/ DcTransitionEnd("dc1")
    \/ AdvanceTime

SpecClock == ClockInit /\ [][ClockNext]_vars

----------------------------------------------------------------------------
(* Several widgets on one page and their timers: specification SpecTimers *)

ShowSeconds ==
    [DefaultShow EXCEPT !.hour = FALSE, !.minute = FALSE, !.hours_am_pm = FALSE]

TimerDcInputs ==
    { DcInput(UndefStr, "user-settings", ShowSeconds, "digital"),
      DcInput(UndefStr, "Pacific/Auckland", ShowSeconds, "digital") }

TimerDtInputs ==
    { [cfg |-> HostCfg(UndefStr),
       props |-> [override |-> "user-settings", format |-> PresetFormat(p)]] :
      p \in {"iso", "weekday_day_ordinal"} }

TimerAcInputs ==
    { [cfg |-> HostCfg(UndefStr), props |-> [override |-> o]] :
      o \in {"user-settings", "Pacific/Auckland"} }

TimersInit ==
    /\ hostZone = "Etc/UTC"
    /\ icuPads = TRUE
    /\ hasNavigator = TRUE
    /\ navLanguage = EnUS
    /\ ComposeIdle
    /\ RenderIdle
    /\ clock = (4 * SecondsPerDay + 9 * 3600 + 59 * 60 + 58) * 1000
    /\ PageEmpty

\* widgets of one kind are interchangeable: they are placed in the order of
\* their names
Before(i) ==
    CASE i = "dc2" -> {"dc1"}
      [] i = "dt2" -> {"dt1"}
      [] OTHER -> {}

TimersNext ==
    \/ \E i \in DcInst :
          (\A j \in Before(i) : dc[j].phase # "new") /\ DcMount(i, TimerDcInputs)
    \/ \E i \in DcInst : DcRerender(i, TimerDcInputs)
    \/ \E i \in DcInst : DcUnmount(i)
    \/ \E i \in DcInst : DcTimeoutFire(i)
    \/ \E i \in DcInst : DcIntervalFire(i)
    \/ \E i \in DtInst :
          (\A j \in Before(i) : dt[j].phase # "new") /\ DtMount(i, TimerDtInputs)
    \/ \E i \in DtInst : DtRerender(i, TimerDtInputs)
    \/ \E i \in DtInst : DtUnmount(i)
    \/ \E i \in DtInst : DtIntervalFire(i)
    \/ \E i \in AcInst : AcMount(i, TimerAcInputs)
    \/ \E i \in AcInst : AcRerender(i, TimerAcInputs)
    \/ \E i \in AcInst : AcUnmount(i)
    \/ AdvanceTime

SpecTimers == TimersInit /\ [][TimersNext]_vars

----------------------------------------------------------------------------
(* Properties of the clock's values and digits (SpecClock) *)

\* the units whose single-character value is to get a leading zero
TwoDigitUnit(k, show) ==
    \/ k \in {"hour", "minute", "second"}
    \/ k = "month" /\ show.monthFormat \in {Undef, "2-digit"}
    \/ k = "day" /\ show.dayFormat = "2-digit"

\* what the formatter yields for unit k at instant t, before any padding
RawPart(k, fmt, t) == PartOr(dcExtractParts(t, fmt), k)

\* a list of sections or tick values carries, for every unit but AM/PM, the
\* formatter's value, with a leading zero where a two-digit unit has one
\* character
PaddedAsAsked(values, show, fmt, t) ==
    \A n \in 1..Len(values) :
        LET k == values[n].key
            raw == RawPart(k, fmt, t)
        IN  k # "hours_am_pm" =>
              /\ values[n].digits =
                    IF TwoDigitUnit(k, show) /\ Len(raw) = 1 THEN <<"0", raw[1]>> ELSE raw
              /\ pad2(pad2(raw)) = pad2(raw)
              /\ (Len(raw) >= 2 => pad2(raw) = raw)

\* the formatter of the clock's last render
RenderedFmt(d) ==
    dcRender(d.cfg, d.props.override, d.props.show, Sec(d.mountNow), hasNavigator,
             navLanguage, hostZone, icuPads).fmt

\* C4: the sections of the initial render (buildInitialSections) and the
\* values of every tick (applyTick, at whatever instant its timer runs it)
\* show a single-character hour, minute or second with a leading "0", and so
\* a month whose monthFormat is undefined or "2-digit" and a day whose
\* dayFormat is "2-digit"; longer values pass unchanged, pad2 is idempotent.
C4_TwoDigitPadding ==
    \A i \in DcInst :
        dc[i].phase = "mounted" =>
          /\ PaddedAsAsked(dc[i].vdom.sections, dc[i].props.show, RenderedFmt(dc[i]),
                           Sec(dc[i].mountNow))
          /\ \A t \in timers :
                t.owner = i =>
                  PaddedAsAsked(tickValues(Sec(clock), t.tick.enabled, t.tick.show,
                                           t.tick.fmt, hostZone),
                                t.tick.show, t.tick.fmt, Sec(clock))

\* on a platform that formats hours without a leading zero, a clock mounted
\* at 09:59:58 renders the hour as 0 9 and has run a tick
C4_Witness ==
    /\ ~icuPads
    /\ dc["dc1"].phase = "mounted"
    /\ ~dc["dc1"].firstRun
    /\ DigitsOf(dc["dc1"].vdom.sections, "hour") = <<"0", "9">>
    /\ Len(dc["dc1"].dom["hour"]) = 2
    /\ dc["dc1"].dom["hour"][1].kind = "span"
    /\ dc["dc1"].dom["hour"][1].text = "0"

\* the value a digit currently displays: a span's text; the front and the
\* lower half of a card at rest
Displays(e, d) ==
    IF e.kind = "span" THEN e.text = d
    ELSE ~e.flipped /\ e.front = d /\ e.currentBelow = d

\* the timer of instance i whose callback is due
DueTimer(i) == CHOOSE t \in timers : t.owner = i /\ t.due <= clock

\* the updater calls of the tick that timer t runs now
CallsOf(i, t) ==
    tickCalls(tickValues(Sec(clock), t.tick.enabled, t.tick.show, t.tick.fmt, hostZone),
              dc[i].updaters, 1, 1)

\* C5: a tick that hands a digit in the document only the value it displays
\* leaves that digit as it is: no text changes, the card is not flipped,
\* currentRef and nextRef stay.
C5_UpdateIdempotent ==
    [][ \A i \in DcInst :
          (DcTimeoutFire(i) \/ DcIntervalFire(i)) =>
            LET calls == CallsOf(i, DueTimer(i))
            IN  \A k \in UnitKeys : \A n \in 1..Len(dc[i].dom[k]) :
                  LET e == dc[i].dom[k][n]
                      mine == {c \in 1..Len(calls) : calls[c].id = e.id}
                  IN  (mine # {} /\ \A c \in mine : Displays(e, calls[c].digit))
                        => dc'[i].dom[k][n] = e ]_vars

----------------------------------------------------------------------------
(* Properties of the timers (SpecTimers) *)

TimersOf(i) == {t \in timers : t.owner = i}

\* C6, as stated: every mounted widget, the analog clock too, has exactly one
\* repeating timer of second or minute granularity, its own.
C6_OneRepeatingTimerEach ==
    /\ \A i \in DcInst :
          dc[i].phase = "mounted" =>
            \E t \in TimersOf(i) :
                TimersOf(i) = {t} /\ t.kind = "interval" /\ t.period \in {1000, 60000}
    /\ \A i \in DtInst :
          dt[i].phase = "mounted" =>
            \E t \in TimersOf(i) :
                TimersOf(i) = {t} /\ t.kind = "interval" /\ t.period \in {1000, 60000}
    /\ \A i \in AcInst :
          ac[i].phase = "mounted" =>
            \E t \in TimersOf(i) :
                TimersOf(i) = {t} /\ t.kind = "interval" /\ t.period \in {1000, 60000}

\* C6, amended: a mounted digital / flip clock has exactly one pending timer,
\* first the one-shot timeout that aligns it to the second, then an interval
\* of one second; a mounted DateText has exactly one interval of one minute;
\* an analog clock has no timer.  Every timer belongs to one mounted
\* instance, which holds its id, and no two timers have the same id.
C6_OwnTimerPerClockAndDateText ==
    /\ \A i \in DcInst :
          dc[i].phase = "mounted" =>
            \E t \in TimersOf(i) :
                /\ TimersOf(i) = {t}
                /\ \/ t.kind = "timeout" /\ t.id = dc[i].effect.timeoutId
                      /\ t.due <= clock + 1000
                   \/ t.kind = "interval" /\ t.id = dc[i].effect.intervalId
                      /\ t.period = 1000
    /\ \A i \in DtInst :
          dt[i].phase = "mounted" =>
            \E t \in TimersOf(i) :
                /\ TimersOf(i) = {t}
                /\ t.kind = "interval" /\ t.id = dt[i].intervalRef /\ t.period = 60000
    /\ \A i \in AcInst : TimersOf(i) = {}
    /\ \A t \in timers :
          \/ t.owner \in DcInst /\ dc[t.owner].phase = "mounted"
          \/ t.owner \in DtInst /\ dt[t.owner].phase = "mounted"
    /\ \A t, u \in timers : t.id = u.id => t = u

\* two clocks are mounted, one still waiting for its alignment timeout and
\* one ticking on its interval, each with its own timer
C6_Witness ==
    /\ dc["dc1"].phase = "mounted" /\ dc["dc2"].phase = "mounted"
    /\ \E t \in TimersOf("dc1"), u \in TimersOf("dc2") :
          t.kind = "interval" /\ u.kind = "timeout" /\ t.id # u.id
    /\ ~dc["dc1"].firstRun

\* C7: once a clock or a DateText is unmounted none of its timers is pending,
\* and no timer callback of it runs.
C7_NoTimerAfterUnmount ==
    /\ [](/\ \A i \in DcInst : dc[i].phase = "unmounted" => TimersOf(i) = {}
          /\ \A i \in DtInst : dt[i].phase = "unmounted" => TimersOf(i) = {})
    /\ [][ /\ \A i \in DcInst :
                (DcTimeoutFire(i) \/ DcIntervalFire(i)) => dc[i].phase = "mounted"
           /\ \A i \in DtInst : DtIntervalFire(i) => dt[i].phase = "mounted" ]_vars

\* a clock was unmounted after its interval had started and its effect had
\* run again; a DateText on the same page keeps its interval
C7_Witness ==
    /\ dc["dc1"].phase = "unmounted"
    /\ dc["dc1"].renders = 1
    /\ dc["dc1"].effect.timeoutId > 1
    /\ ~dc["dc1"].firstRun
    /\ TimersOf("dc1") = {}
    /\ dt["dt1"].phase = "mounted"
    /\ TimersOf("dt1") # {}

\* C8: an instance never has more than one pending timer, and the one a
\* clock or a DateText has is the one its latest effect set.
C8_AtMostOnePendingTimer ==
    /\ \A i \in DcInst \cup DtInst : Cardinality(TimersOf(i)) <= 1
    /\ \A i \in DcInst : \A t \in TimersOf(i) :
          t.id \in {dc[i].effect.timeoutId, dc[i].effect.intervalId}
    /\ \A i \in DtInst : \A t \in TimersOf(i) : t.id = dt[i].intervalRef

\* a clock whose interval was running rendered with another timezone: its
\* effect ran again, and the one pending timer is the new alignment timeout
C8_Witness ==
    /\ dc["dc1"].phase = "mounted"
    /\ dc["dc1"].renders = 1
    /\ ~dc["dc1"].firstRun
    /\ dc["dc1"].effect.intervalId = 0
    /\ \E t \in TimersOf("dc1") : t.kind = "timeout" /\ TimersOf("dc1") = {t}

----------------------------------------------------------------------------
(* What the clock's digit slots show after a tick (SpecClock) *)

\* the interval of instance i whose tick ran at the present instant (the
\* alignment timeout starts it after its tick, each of its ticks moves it on)
JustTicked(i) ==
    {t \in timers : t.owner = i /\ t.kind = "interval" /\ t.due = clock + t.period}

\* the digit slots of unit k in the document display exactly the value v
SlotsShow(dom, k, v) ==
    /\ Len(dom[k]) = Len(v)
    /\ \A n \in 1..Len(v) : Displays(dom[k][n], v[n])

\* with every card at rest, each enabled unit's slots display the value the
\* tick that just ran computed for its instant
SlotsShowTick(i) ==
    \A t \in JustTicked(i) :
        FlippedSlots(dc[i].dom) = {} =>
          LET values == tickValues(Sec(clock), t.tick.enabled, t.tick.show, t.tick.fmt,
                                   hostZone)
          IN  \A n \in 1..Len(values) :
                SlotsShow(dc[i].dom, values[n].key, values[n].digits)

\* C11: after a tick of the clock, and after the end of the flips it started,
\* the digit slots of every enabled unit spell the unit's formatted value
\* for the instant of the tick, whatever the length of that value.
C11_SlotsSpellTickValue ==
    [][ \A i \in DcInst :
          (DcTimeoutFire(i) \/ DcIntervalFire(i) \/ DcTransitionEnd(i)) =>
            SlotsShowTick(i)' ]_vars

----------------------------------------------------------------------------
(* The settings behind a running tick (SpecClock, SpecTimers) *)

\* the formatter DateText's last render built
RenderedDtFmt(d) ==
    dtRender(d.cfg, d.props.override, d.props.format, hasNavigator, navLanguage,
             hostZone, icuPads).fmt

\* C12: the tick of every pending timer of a mounted clock or DateText
\* formats in the language and the time zone of the instance's latest
\* render, that is of the host configuration now in force.
C12_TicksFollowHostSettings ==
    /\ \A i \in DcInst :
          dc[i].phase = "mounted" =>
            \A t \in TimersOf(i) :
                /\ t.tick.fmt.lang = RenderedFmt(dc[i]).lang
                /\ t.tick.fmt.zone = RenderedFmt(dc[i]).zone
    /\ \A i \in DtInst :
          dt[i].phase = "mounted" =>
            \A t \in TimersOf(i) :
                /\ t.tick.fmt.lang = RenderedDtFmt(dt[i]).lang
                /\ t.tick.fmt.zone = RenderedDtFmt(dt[i]).zone

----------------------------------------------------------------------------
(* The clock's units and their values, call by call: specification SpecUnits *)
(* props.show, the timezone override, the machine's zone and the instant    *)
(* are drawn once; each action is one call, a tick one second later.        *)

\* seconds a tick may lie after the first instant
MaxTicks == 2

\* every combination of the unit switches, in 12-hour and 24-hour mode
UnitShows ==
    { [DefaultShow EXCEPT !.hourFormat = hf, !.year = y, !.month = mo, !.day = d,
                          !.hour = h, !.minute = mi, !.second = s, !.hours_am_pm = ap] :
      hf \in {"12", "24"}, y \in BOOLEAN, mo \in BOOLEAN, d \in BOOLEAN, h \in BOOLEAN,
      mi \in BOOLEAN, s \in BOOLEAN, ap \in BOOLEAN }

\* 2025-10-05T09:59:58Z and 2025-10-05T11:59:58Z
UnitInstants ==
    { 4 * SecondsPerDay + 9 * 3600 + 59 * 60 + 58,
      4 * SecondsPerDay + 11 * 3600 + 59 * 60 + 58 }

UnitsInit ==
    /\ hostZone \in HostZones
    /\ icuPads = TRUE
    /\ hasNavigator = TRUE
    /\ navLanguage = EnUS
    /\ rCfg = HostCfg(UndefStr)
    /\ rOverride \in {"user-settings", "America/Los_Angeles"}
    /\ rFormat = PresetFormat("full_long")
    /\ rShow \in UnitShows
    /\ rNow \in UnitInstants
    /\ rOut = [op |-> "none"]
    /\ DrawIdle
    /\ ComposeIdle
    /\ PageIdle

UnitsFrame ==
    UNCHANGED <<envVars, composeVars, rCfg, rOverride, rFormat, rShow, rLocales,
                rLabelsShow, rStyleMode, rTicks, pageVars>>

\* enabledUnits(show)
CallEnabledUnits ==
    /\ rOut' = [op |-> "enabledUnits", out |-> enabledUnits(rShow)]
    /\ UNCHANGED rNow
    /\ UnitsFrame

\* Render's initSections at the instant of the mount
CallBuildInitialSections ==
    /\ rOut' = [op |-> "buildInitialSections",
                out |-> dcRender(rCfg, rOverride, rShow, rNow, hasNavigator, navLanguage,
                                 hostZone, icuPads).initSections]
    /\ UNCHANGED rNow
    /\ UnitsFrame

\* a second later, the values applyTick computes with Render's formatter
CallApplyTick ==
    /\ \E s \in UnitInstants : rNow + 1 <= s + MaxTicks /\ rNow >= s
    /\ rNow' = rNow + 1
    /\ \E r \in {dcRender(rCfg, rOverride, rShow, rNow, hasNavigator, navLanguage,
                           hostZone, icuPads)} :
         rOut' = [op |-> "applyTick",
                  out |-> tickValues(rNow', r.enabled, rShow, r.fmt, hostZone)]
    /\ UnitsFrame

UnitsNext == CallEnabledUnits \/ CallBuildInitialSections \/ CallApplyTick

SpecUnits == UnitsInit /\ [][UnitsNext]_vars

\* the half of the day of instant t in zone z
HalfOfDay(t, z) == IF Civil(t, ZoneOffset(z)).hour < 12 THEN <<"A", "M">> ELSE <<"P", "M">>

\* C13: whenever AM/PM is among the units, its value in the initial sections
\* and in every tick's values names the half of the day of the instant in
\* the clock's resolved time zone, whichever other units are shown.
C13_AmPmInResolvedZone ==
    rOut.op \in {"buildInitialSections", "applyTick"} =>
        \A n \in 1..Len(rOut.out) :
            rOut.out[n].key = "hours_am_pm" =>
                rOut.out[n].digits = HalfOfDay(rNow, effectiveZone(rCfg, rOverride))

----------------------------------------------------------------------------
(* The time zone a widget formats in (SpecRender) *)

\* C14: the time zone a render of any of the three widgets formats in is the
\* host configuration's time_zone when the override is "user-settings", and
\* the override itself otherwise.
C14_EffectiveTimezone ==
    (rOut.op \in {"DateText", "DigitalClock", "AnalogClock"} /\ ~rOut.out.threw) =>
        rOut.out.timezone = IF rOverride = "user-settings" THEN rCfg.time_zone
                            ELSE rOverride

----------------------------------------------------------------------------
(* The units of the clock (SpecUnits) *)

\* the units props.show switches on; AM/PM counts in 12-hour mode only
SwitchedOn(show) ==
    (IF show.year THEN {"year"} ELSE {})
      \cup (IF show.month THEN {"month"} ELSE {})
      \cup (IF show.day THEN {"day"} ELSE {})
      \cup (IF show.hour THEN {"hour"} ELSE {})
      \cup (IF show.minute THEN {"minute"} ELSE {})
      \cup (IF show.second THEN {"second"} ELSE {})
      \cup (IF show.hours_am_pm /\ show.hourFormat = "12" THEN {"hours_am_pm"} ELSE {})

\* C15: enabledUnits(show) holds exactly the units switched on, each once, in
\* the order year, month, day, hour, minute, second, AM/PM; AM/PM is in it
\* if and only if show.hours_am_pm is set and show.hourFormat is "12".
C15_EnabledUnitsOrdered ==
    rOut.op = "enabledUnits" =>
        LET out == rOut.out
        IN  /\ {out[n] : n \in 1..Len(out)} = SwitchedOn(rShow)
            /\ \A n \in 1..Len(out) : out[n] \in UnitKeys
            /\ \A a, b \in 1..Len(out) : a < b => UnitIndex(out[a]) < UnitIndex(out[b])
            /\ (\E n \in 1..Len(out) : out[n] = "hours_am_pm")
                  <=> (rShow.hours_am_pm /\ rShow.hourFormat = "12")
            /\ rShow.hourFormat = "24" => \A n \in 1..Len(out) : out[n] # "hours_am_pm"

\* in 24-hour mode with the AM/PM switch on, year, day and hour are returned
\* in that order, without AM/PM
C15_Witness ==
    /\ rOut.op = "enabledUnits"
    /\ rShow.hourFormat = "24" /\ rShow.hours_am_pm
    /\ rOut.out = <<"year", "day", "hour">>

----------------------------------------------------------------------------
(* DateText's token sequence, call by call: specification SpecSequence *)

\* props.format with preset "custom": every combination of the four part
\* switches and every separator style of the field's options, or none
SequenceFormats ==
    [ preset : {"custom"}, year : BOOLEAN, yearFormat : {"numeric"},
      month : BOOLEAN, monthFormat : {"long"},
      day : BOOLEAN, dayFormat : {"numeric"},
      weekday : BOOLEAN, weekdayFormat : {"short"},
      separatorStyle : {Undef, "space", "slash", "dash", "comma-space"} ]

SequenceInit ==
    /\ hostZone = "Etc/UTC"
    /\ icuPads = TRUE
    /\ hasNavigator = TRUE
    /\ navLanguage = EnUS
    /\ cInstant = 0 /\ cLocale = EnUS /\ cZone = Undef
    /\ cFormat \in SequenceFormats
    /\ cDay = 0 /\ cOrd = <<>> /\ cLast = NoEval
    /\ RenderIdle
    /\ PageIdle

\* buildSequence(props.format)
CallBuildSequence ==
    /\ cLast' = [op |-> "buildSequence", seq |-> buildSequence(cFormat)]
    /\ UNCHANGED <<envVars, cInstant, cLocale, cZone, cFormat, cDay, cOrd, renderVars,
                   pageVars>>

SequenceNext == CallBuildSequence

SpecSequence == SequenceInit /\ [][SequenceNext]_vars

\* the parts a custom format switches on, in the order weekday, month, day, year
PartsOn(f) ==
    FilterSeq(<<"weekday", "month", "day", "year">>,
              (IF f.weekday THEN {"weekday"} ELSE {}) \cup (IF f.month THEN {"month"} ELSE {})
                \cup (IF f.day THEN {"day"} ELSE {}) \cup (IF f.year THEN {"year"} ELSE {}))

\* the characters of a separator style; a space when none is chosen
SeparatorOf(style) ==
    CASE style = "slash" -> <<"/">>
      [] style = "dash" -> <<"-">>
      [] style = "comma-space" -> <<",", " ">>
      [] OTHER -> <<" ">>

\* C16: for preset custom buildSequence returns the parts switched on, in
\* the order weekday, month, day, year; between every two neighbours, and
\* nowhere else, stands the chosen separator: n parts come with n - 1
\* separators, the sequence begins and ends with a part, and it is empty
\* when no part is switched on.
C16_CustomSequence ==
    (cLast.op = "buildSequence" /\ cFormat.preset = "custom") =>
        LET seq == cLast.seq
            parts == PartsOn(cFormat)
            n == Len(parts)
            seps == {i \in 1..Len(seq) : "sep" \in DOMAIN seq[i]}
        IN  /\ n = 0 => seq = <<>>
            /\ n >= 1 =>
                 /\ Len(seq) = 2 * n - 1
                 /\ Cardinality(seps) = n - 1
                 /\ \A i \in 1..n : seq[2 * i - 1] = [part |-> parts[i]]
                 /\ \A i \in seps : seq[i] = [sep |-> SeparatorOf(cFormat.separatorStyle)]
                 /\ "part" \in DOMAIN seq[1] /\ "part" \in DOMAIN seq[Len(seq)]

\* weekday, day and year with the comma-space style: two separators ", "
C16_Witness ==
    /\ cLast.op = "buildSequence"
    /\ cFormat.separatorStyle = "comma-space"
    /\ cLast.seq = << [part |-> "weekday"], [sep |-> <<",", " ">>], [part |-> "day"],
                      [sep |-> <<",", " ">>], [part |-> "year"] >>

----------------------------------------------------------------------------
(* The preview of the presets (SpecCompose) *)

\* the presets whose description is their text for 2025-10-20 in en-US
DatedPresets ==
    {"month_day_year", "weekday_month_day", "weekday_month_day_year", "dmy_slash",
     "ymd_slash", "mdy_slash", "iso", "ymd_dot", "dmy_dot", "full_long",
     "iso_with_weekday"}

\* PRESETS[p].description, character by character
description(p) ==
    CASE p = "month_day_year" ->
            <<"O","c","t","o","b","e","r"," ","2","0"," ","2","0","2","5">>
      [] p = "weekday_month_day" ->
            <<"M","o","n"," ","O","c","t"," ","2","0">>
      [] p = "weekday_month_day_year" ->
            <<"M","o","n"," ","O","c","t"," ","2","0"," ","2","0","2","5">>
      [] p = "dmy_slash" ->
            <<"2","0","/","1","0","/","2","0","2","5">>
      [] p = "ymd_slash" ->
            <<"2","0","2","5","/","1","0","/","2","0">>
      [] p = "mdy_slash" ->
            <<"1","0","/","2","0","/","2","0","2","5">>
      [] p = "iso" ->
            <<"2","0","2","5","-","1","0","-","2","0">>
      [] p = "ymd_dot" ->
            <<"2","0","2","5",".","1","0",".","2","0">>
      [] p = "dmy_dot" ->
            <<"2","0",".","1","0",".","2","0","2","5">>
      [] p = "full_long" ->
            <<"M","o","n","d","a","y",","," ","O","c","t","o","b","e","r"," ","2","0",","," ","2","0","2","5">>
      [] p = "iso_with_weekday" ->
            <<"M","o","n"," ","2","0","2","5","-","1","0","-","2","0">>

\* noon of 2025-10-20 (UTC)
October20 == 19 * SecondsPerDay + 12 * 3600

\* token i of a sequence as the preview is to show it: a separator as it is,
\* a part's value after one space when the token before it is a part
PreviewPiece(seq, raw, i) ==
    IF "sep" \in DOMAIN seq[i] THEN seq[i].sep
    ELSE (IF i > 1 /\ "part" \in DOMAIN seq[i - 1] THEN <<" ">> ELSE <<>>)
           \o raw[seq[i].part]

\* C17: for a preset other than custom composePreview's text is the values
\* of the preset's parts in the declared order, every declared separator as
\* it is and one space between two parts that follow each other; it neither
\* begins nor ends with a separator or a space; for 2025-10-20 in en-US it
\* is the preset's description where that describes this date.
C17_PresetPreviewPattern ==
    (cLast.op = "preview" /\ cFormat.preset # "custom") =>
        LET seq == PRESETS[cFormat.preset].order
            text == cLast.text
        IN  /\ \A i \in 1..Len(seq) :
                  "part" \in DOMAIN seq[i] =>
                      /\ seq[i].part \in DOMAIN cLast.parts
                      /\ cLast.parts[seq[i].part] # <<>>
            /\ text = Concat([i \in 1..Len(seq) |-> PreviewPiece(seq, cLast.parts, i)])
            /\ "part" \in DOMAIN seq[1] /\ "part" \in DOMAIN seq[Len(seq)]
            /\ text # <<>> /\ text[1] # " " /\ text[Len(text)] # " "
            /\ ( /\ cFormat.preset \in DatedPresets
                 /\ cInstant = October20
                 /\ cLocale = EnUS
                 /\ cLast.zone \in {"Etc/UTC", "America/Los_Angeles"} )
                  => text = description(cFormat.preset)

\* the preview of full_long for 2025-10-20 in en-US
C17_Witness ==
    /\ cLast.op = "preview"
    /\ cFormat.preset = "full_long"
    /\ cInstant = October20
    /\ cLast.text = description("full_long")

----------------------------------------------------------------------------
(* What the clocks draw besides the time: specification SpecDrawing *)

LABELS ==
    [ year |-> <<"Y", "E", "A", "R">>,
      month |-> <<"M", "O", "N", "T", "H">>,
      day |-> <<"D", "A", "Y">>,
      hour |-> <<"H", "O", "U", "R">>,
      minute |-> <<"M", "I", "N", "U", "T", "E">>,
      second |-> <<"S", "E", "C", "O", "N", "D">>,
      hours_am_pm |-> <<"A", "M", "/", "P", "M">> ]

\* the non-breaking space of the label of a scaled AM/PM
Nbsp == "&nbsp;"

\* str.replace(/[0-9\.]/g, "")
stripNumerals(cs) ==
    LET Kept(c) == c # "." /\ \A d \in 1..10 : DigitChars[d] # c
    IN  SelectSeq(cs, Kept)

\* key === "hours_am_pm" && styleMode === "digital" && show.hoursAmPmFormat === "scaled"
isScaledAmPm(key, styleMode, show) ==
    key = "hours_am_pm" /\ styleMode = "digital" /\ show.hoursAmPmFormat = "scaled"

\* the unit label, were the AM/PM strings taken as they come
unitLabelUnstripped(key, locales, labelsShow, styleMode, show) ==
    IF ~labelsShow THEN [shown |-> FALSE, text |-> <<>>]
    ELSE IF isScaledAmPm(key, styleMode, show) THEN [shown |-> TRUE, text |-> <<Nbsp>>]
    ELSE [ shown |-> TRUE,
           text |-> IF key = "hours_am_pm" /\ locales.am # <<>> /\ locales.pm # <<>>
                    THEN locales.am \o <<"/">> \o locales.pm
                    ELSE IF locales[key] # <<>> THEN locales[key] ELSE LABELS[key] ]

\* the <div class="ha-dc__unit_label"> Render draws under the group of unit
\* key, if it draws one; a string useLocales() lacks is empty here
unitLabel(key, locales, labelsShow, styleMode, show) ==
    IF ~labelsShow THEN [shown |-> FALSE, text |-> <<>>]
    ELSE IF isScaledAmPm(key, styleMode, show) THEN [shown |-> TRUE, text |-> <<Nbsp>>]
    ELSE [ shown |-> TRUE,
           text |-> IF key = "hours_am_pm" /\ locales.am # <<>> /\ locales.pm # <<>>
                    THEN stripNumerals(locales.am \o <<"/">> \o locales.pm)
                    ELSE IF locales[key] # <<>> THEN locales[key] ELSE LABELS[key] ]

\* localized strings: all there; AM/PM with dots and a numeral and a unit
\* name with a dot; one of AM/PM missing, with and without a localized name
\* of the AM/PM unit
DrawLocales ==
    { NoLocales,
      [NoLocales EXCEPT !.am = <<"A", "M">>, !.pm = <<"P", "M">>,
                        !.hour = <<"H", "o", "u", "r">>,
                        !.hours_am_pm = <<"A", "M", "/", "P", "M">>],
      [NoLocales EXCEPT !.am = <<"a", ".", "m", ".">>, !.pm = <<"p", ".", "m", ".", "2">>,
                        !.hour = <<"S", "t", "d", ".">>],
      [NoLocales EXCEPT !.am = <<"A", "M">>, !.hours_am_pm = <<"1", "2", "h">>],
      [NoLocales EXCEPT !.pm = <<"P", "M">>, !.minute = <<"M", "i", "n", ".">>] }

\* every unit shown, AM/PM scaled or not
DrawShows ==
    { [DefaultShow EXCEPT !.year = TRUE, !.month = TRUE, !.day = TRUE,
                          !.hoursAmPmFormat = f] : f \in {"default", "scaled"} }

DrawInit ==
    /\ hostZone = "Etc/UTC"
    /\ icuPads = TRUE
    /\ hasNavigator = TRUE
    /\ navLanguage = EnUS
    /\ rCfg = NoCfg
    /\ rOverride = "user-settings"
    /\ rFormat = PresetFormat("full_long")
    /\ rShow \in DrawShows
    /\ rNow = 0
    /\ rOut = [op |-> "none"]
    /\ rLocales \in DrawLocales
    /\ rLabelsShow \in BOOLEAN
    /\ rStyleMode \in {"digital", "flip"}
    /\ rTicks \in {Undef, "none", "quarter", "hour", "minute"}
    /\ ComposeIdle
    /\ PageIdle

DrawFrame ==
    UNCHANGED <<envVars, composeVars, rCfg, rOverride, rFormat, rShow, rNow, rLocales,
                rLabelsShow, rStyleMode, rTicks, pageVars>>

\* Render draws the label of one of its units
DrawUnitLabel ==
    /\ \E n \in 1..Len(enabledUnits(rShow)) :
          rOut' = [ op |-> "unitLabel", key |-> enabledUnits(rShow)[n],
                    out |-> unitLabel(enabledUnits(rShow)[n], rLocales, rLabelsShow,
                                      rStyleMode, rShow) ]
    /\ DrawFrame

minuteMarkers == [i \in 1..60 |-> i - 1]

fiveMinuteMarkers ==
    LET EveryFifth(m) == m % 5 = 0
    IN  SelectSeq(minuteMarkers, EveryFifth)

\* the markers, were the thin ones drawn for every density but "none"
markersThinUnlessNone(ticksProp) ==
    LET ticks == IF ticksProp = Undef THEN "minute" ELSE ticksProp
    IN  [ thin |-> IF ticks # "none" THEN minuteMarkers ELSE <<>>,
          thick |-> (IF ticks \in {"hour", "minute"} THEN fiveMinuteMarkers ELSE <<>>)
                      \o (IF ticks = "quarter" THEN <<0, 15, 30, 45>> ELSE <<>>) ]

\* the minute positions at which AnalogClockPrivate draws a thin marker
\* (drawMinuteMarker) and a thick one (draw5MinMarker), in drawing order;
\* the prop's default is "minute"
markers(ticksProp) ==
    LET ticks == IF ticksProp = Undef THEN "minute" ELSE ticksProp
    IN  [ thin |-> IF ticks \notin {"none", "hour", "quarter"} THEN minuteMarkers ELSE <<>>,
          thick |-> (IF ticks \in {"hour", "minute"} THEN fiveMinuteMarkers ELSE <<>>)
                      \o (IF ticks = "quarter" THEN <<0, 15, 30, 45>> ELSE <<>>) ]

\* AnalogClockPrivate draws its markers
DrawMarkers ==
    /\ rOut' = [op |-> "markers", out |-> markers(rTicks)]
    /\ DrawFrame

DrawNext == DrawUnitLabel \/ DrawMarkers

SpecDrawing == DrawInit /\ [][DrawNext]_vars

\* the digits and the full stop
NumeralChars == {DigitChars[d] : d \in 1..10} \cup {"."}

RECURSIVE WithoutNumerals(_)
WithoutNumerals(cs) ==
    IF cs = <<>> THEN <<>>
    ELSE (IF Head(cs) \in NumeralChars THEN <<>> ELSE <<Head(cs)>>)
           \o WithoutNumerals(Tail(cs))

\* the label of unit key by the rule: for AM/PM with both localized strings
\* "<am>/<pm>" without digits and full stops, else the localized name of the
\* unit, else the static English label
LabelRule(key, locales) ==
    IF key = "hours_am_pm" /\ locales.am # <<>> /\ locales.pm # <<>>
    THEN WithoutNumerals(locales.am \o <<"/">> \o locales.pm)
    ELSE IF locales[key] # <<>> THEN locales[key]
    ELSE LABELS[key]

\* the static English labels
StaticLabels ==
    /\ LABELS.year = <<"Y", "E", "A", "R">> /\ LABELS.month = <<"M", "O", "N", "T", "H">>
    /\ LABELS.day = <<"D", "A", "Y">> /\ LABELS.hour = <<"H", "O", "U", "R">>
    /\ LABELS.minute = <<"M", "I", "N", "U", "T", "E">>
    /\ LABELS.second = <<"S", "E", "C", "O", "N", "D">>
    /\ LABELS.hours_am_pm = <<"A", "M", "/", "P", "M">>

\* the label of every unit follows the rule, AM/PM included in every mode
C18_LabelRuleEverywhere ==
    (rOut.op = "unitLabel" /\ rOut.out.shown) =>
        /\ rOut.out.text = LabelRule(rOut.key, rLocales)
        /\ StaticLabels

\* C18: a label that is drawn follows the rule (for AM/PM with both
\* localized strings "<am>/<pm>" without any digit or full stop, else the
\* localized unit name, else the static English label), except under an
\* AM/PM group that is scaled in digital mode, whose label is a single
\* non-breaking space.
C18_LabelRuleUnlessScaled ==
    (rOut.op = "unitLabel" /\ rOut.out.shown) =>
        /\ StaticLabels
        /\ IF rOut.key = "hours_am_pm" /\ rStyleMode = "digital"
                /\ rShow.hoursAmPmFormat = "scaled"
           THEN rOut.out.text = <<Nbsp>>
           ELSE /\ rOut.out.text = LabelRule(rOut.key, rLocales)
                /\ (rOut.key = "hours_am_pm" /\ rLocales.am # <<>> /\ rLocales.pm # <<>>)
                      => \A i \in 1..Len(rOut.out.text) :
                            rOut.out.text[i] \notin NumeralChars

\* in flip mode "a.m." and "p.m.2" give the AM/PM label am/pm
C18_Witness ==
    /\ rOut.op = "unitLabel"
    /\ rOut.key = "hours_am_pm"
    /\ rStyleMode = "flip"
    /\ rLocales.am = <<"a", ".", "m", ".">>
    /\ rLocales.pm = <<"p", ".", "m", ".", "2">>
    /\ rOut.out = [shown |-> TRUE, text |-> <<"a", "m", "/", "p", "m">>]


\* a sequence of minute positions without repetition
NoRepeats(ms) == \A a, b \in 1..Len(ms) : a # b => ms[a] # ms[b]

\* the set of the positions of a sequence
Positions(ms) == {ms[n] : n \in 1..Len(ms)}

\* C20: with density "none" no marker is drawn; with "quarter" the four
\* thick markers at 0, 15, 30 and 45 and no thin one; with "hour" the twelve
\* thick markers at the multiples of 5 and no thin one; with "minute" the
\* sixty thin markers and the twelve thick ones.
C20_MarkersByDensity ==
    rOut.op = "markers" =>
        LET thin == rOut.out.thin
            thick == rOut.out.thick
            fives == {m \in 0..59 : m % 5 = 0}
        IN  /\ NoRepeats(thin) /\ NoRepeats(thick)
            /\ rTicks = "none" => thin = <<>> /\ thick = <<>>
            /\ rTicks = "quarter" =>
                  thin = <<>> /\ Len(thick) = 4 /\ Positions(thick) = {0, 15, 30, 45}
            /\ rTicks = "hour" =>
                  thin = <<>> /\ Len(thick) = 12 /\ Positions(thick) = fives
            /\ rTicks = "minute" =>
                  /\ Len(thin) = 60 /\ Positions(thin) = 0..59
                  /\ Len(thick) = 12 /\ Positions(thick) = fives

\* density "quarter": thick markers at 0, 15, 30, 45 and nothing else
C20_Witness ==
    /\ rOut.op = "markers"
    /\ rTicks = "quarter"
    /\ rOut.out = [thin |-> <<>>, thick |-> <<0, 15, 30, 45>>]

----------------------------------------------------------------------------
(* What a tick of the clock touches (SpecClock) *)

\* the elements of instance i that the tick of timer t hands a digit to
Addressed(i, t) ==
    LET calls == CallsOf(i, t)
    IN  {calls[c].id : c \in 1..Len(calls)}

\* C19: a tick of the clock is no render: it leaves the component's props,
\* host configuration, rendered output, render count and updater registry
\* as they are, and every digit slot in its place; it changes only digits an
\* updater of the registry was called for, and firstRunRef, which is false
\* after it; no other widget changes, and the next tick is due one second
\* later on a repeating timer.
C19_TickIsNoRender ==
    [][ \A i \in DcInst :
          (DcTimeoutFire(i) \/ DcIntervalFire(i)) =>
            LET t == DueTimer(i)
            IN  /\ dc'[i].phase = dc[i].phase
                /\ dc'[i].cfg = dc[i].cfg
                /\ dc'[i].props = dc[i].props
                /\ dc'[i].vdom = dc[i].vdom
                /\ dc'[i].renders = dc[i].renders
                /\ dc'[i].mountNow = dc[i].mountNow
                /\ dc'[i].updaters = dc[i].updaters
                /\ ~dc'[i].firstRun
                /\ \A k \in UnitKeys :
                      /\ Len(dc'[i].dom[k]) = Len(dc[i].dom[k])
                      /\ \A n \in 1..Len(dc[i].dom[k]) :
                            /\ dc'[i].dom[k][n].id = dc[i].dom[k][n].id
                            /\ dc'[i].dom[k][n].kind = dc[i].dom[k][n].kind
                            /\ dc[i].dom[k][n].id \notin Addressed(i, t)
                                  => dc'[i].dom[k][n] = dc[i].dom[k][n]
                /\ \A j \in DcInst \ {i} : dc'[j] = dc[j]
                /\ dt' = dt /\ ac' = ac
                /\ clock' = clock
                /\ \E u \in timers' :
                      /\ u.owner = i /\ u.kind = "interval" /\ u.period = 1000
                      /\ u.due = clock + 1000 ]_vars

\* a clock that never rendered again has ticked, and one of its digits shows
\* another character than the one React rendered
C19_Witness ==
    /\ dc["dc1"].phase = "mounted"
    /\ dc["dc1"].renders = 0
    /\ ~dc["dc1"].firstRun
    /\ JustTicked("dc1") # {}
    /\ \E k \in UnitKeys : \E n \in 1..Len(dc["dc1"].dom[k]) :
          /\ dc["dc1"].dom[k][n].kind = "span"
          /\ dc["dc1"].dom[k][n].text # DigitsOf(dc["dc1"].vdom.sections, k)[n]

----------------------------------------------------------------------------
(* One FlipDigit, its updater and its transitionend listener:               *)
(* specifications SpecFlip and, with the transition ending, SpecFlipLive    *)

\* updateDigit calls made on the digit
MaxUpdates == 3

\* the digits handed to it
FlipValues == {"0", "1", "2"}

FlipInit ==
    /\ hostZone = "Etc/UTC"
    /\ icuPads = TRUE
    /\ hasNavigator = TRUE
    /\ navLanguage = EnUS
    /\ ComposeIdle
    /\ RenderIdle
    /\ clock = 0
    /\ NoWidgets
    /\ fd \in {Flip([r |-> 0, key |-> "second", idx |-> 1], d) : d \in FlipValues}
    /\ fdCalls = <<>>

FlipFrame ==
    UNCHANGED <<envVars, composeVars, renderVars, clock, advances, timers, nextTimerId,
                dc, dt, ac>>

\* updateDigit(next, {immediate}) is called through the registered updater
FlipUpdate(immediate) ==
    /\ Len(fdCalls) < MaxUpdates
    /\ \E next \in FlipValues :
          /\ fd' = updateDigit(fd, next, immediate)
          /\ fdCalls' = Append(fdCalls, [next |-> next, immediate |-> immediate])
    /\ FlipFrame

\* the card's transition to rotateX(-180deg) ends: the transitionend listener
FlipTransitionEnd ==
    /\ fd.flipped
    /\ fd' = handleTransitionEnd(fd)
    /\ UNCHANGED fdCalls
    /\ FlipFrame

FlipNext == FlipUpdate(TRUE) \/ FlipUpdate(FALSE) \/ FlipTransitionEnd

SpecFlip == FlipInit /\ [][FlipNext]_vars

\* a transition that started ends
SpecFlipLive == SpecFlip /\ WF_vars(FlipTransitionEnd)

\* all four faces of the digit show d
FacesShow(e, d) ==
    e.nextAbove = d /\ e.currentBelow = d /\ e.front = d /\ e.back = d

\* C21: once the card is at rest after some updateDigit calls, the four
\* faces and currentRef hold the value of the latest call, however calls and
\* transitionend events were interleaved.
C21_ConvergesToLatest ==
    (fdCalls # <<>> /\ ~fd.flipped) =>
        /\ FacesShow(fd, fdCalls[Len(fdCalls)].next)
        /\ fd.currentRef = fdCalls[Len(fdCalls)].next


\* the step is a non-immediate updateDigit(v) for a value other than the current one
FlipStarts(v) ==
    /\ fdCalls' = Append(fdCalls, [next |-> v, immediate |-> FALSE])
    /\ v # fd.currentRef

\* the step is a transitionend event on the flipped card
FlipEnds == fdCalls' = fdCalls /\ fd.flipped /\ fd' # fd

\* C22: a non-immediate updateDigit(v) for a value other than the current one puts v on the next-above and back faces and flips the card; a transitionend that follows it puts v on the current-below and front faces, makes currentRef = nextRef = v and removes the flipped class; and under fairness of transitionend a flipped card comes to rest.
C22_SingleFlipCompletes ==
    /\ [][ /\ \A v \in FlipValues :
                FlipStarts(v) =>
                    /\ fd'.nextAbove = v /\ fd'.back = v /\ fd'.flipped
                    /\ fd'.currentBelow = fd.currentBelow /\ fd'.front = fd.front
           /\ FlipEnds =>
                    /\ fd'.currentBelow = fd.nextAbove /\ fd'.front = fd.nextAbove
                    /\ fd'.currentRef = fd.nextAbove /\ fd'.nextRef = fd.nextAbove
                    /\ fd'.nextAbove = fd.nextAbove /\ fd'.back = fd.back
                    /\ ~fd'.flipped ]_vars
    /\ (fd.flipped ~> ~fd.flipped)

C22_Witness ==
    /\ fdCalls = << [next |-> "0", immediate |-> TRUE], [next |-> "1", immediate |-> FALSE] >>
    /\ ~fd.flipped
    /\ FacesShow(fd, "1")
    /\ fd.currentRef = "1" /\ fd.nextRef = "1"

\* C23: the next-above and back faces always show nextRef, the current-below and front faces always show currentRef, and a card that is not flipped has nextRef = currentRef on all four faces.
C23_FacesFollowRefs ==
    /\ fd.nextAbove = fd.nextRef /\ fd.back = fd.nextRef
    /\ fd.currentBelow = fd.currentRef /\ fd.front = fd.currentRef
    /\ ~fd.flipped => (fd.nextRef = fd.currentRef /\ FacesShow(fd, fd.currentRef))

C23_Witness ==
    /\ fdCalls = << [next |-> "1", immediate |-> FALSE], [next |-> "2", immediate |-> TRUE] >>
    /\ ~fd.flipped
    /\ fd.currentRef = "2"
    /\ FacesShow(fd, "2")


----------------------------------------------------------------------------
(* The first tick of a clock and the later ones (SpecClock) *)

\* the calls of a tick that go to the element id, by their place in the tick
CallsTo(calls, id) == {c \in 1..Len(calls) : calls[c].id = id}

LastIn(cs) == CHOOSE c \in cs : \A o \in cs : o <= c

\* the digit element e after the updater calls cs of a tick, all made with
\* the immediate option: text set directly to the last digit handed over, no
\* flip started
SetDirectly(e, after, calls, cs) ==
    LET d == calls[LastIn(cs)].digit
    IN  IF e.kind = "span" THEN after.text = d
        ELSE /\ after.flipped = e.flipped
             /\ after.currentRef = d
             /\ after = e \/ (FacesShow(after, d) /\ after.nextRef = d)
             /\ (\A c \in cs : calls[c].digit = e.currentRef) => after = e

\* the digit element e after the updater calls cs of a tick, all made
\* without option: a card handed another value than its current one starts
\* to flip towards the last such value
SetByFlip(e, after, calls, cs) ==
    LET other == {c \in cs : calls[c].digit # e.currentRef}
    IN  IF e.kind = "span" THEN after.text = calls[LastIn(cs)].digit
        ELSE IF other = {} THEN after = e
        ELSE LET d == calls[LastIn(other)].digit
             IN  /\ after.flipped /\ after.nextAbove = d /\ after.back = d
                 /\ after.nextRef = d
                 /\ after.currentRef = e.currentRef /\ after.front = e.front
                 /\ after.currentBelow = e.currentBelow

\* C24: the first tick of a mounted clock hands every digit over with the immediate option and clears firstRunRef; every later tick hands the digits over without it; firstRunRef is cleared by a tick only and is never set again, whatever re-renders and effect re-runs follow.
C24_FirstTickImmediate ==
    [][ \A i \in DcInst :
          /\ (DcTimeoutFire(i) \/ DcIntervalFire(i)) =>
                LET calls == CallsOf(i, DueTimer(i))
                IN  /\ ~dc'[i].firstRun
                    /\ \A k \in UnitKeys : \A n \in 1..Len(dc[i].dom[k]) :
                          LET e == dc[i].dom[k][n]
                              cs == CallsTo(calls, e.id)
                          IN  cs # {} =>
                                IF dc[i].firstRun
                                THEN SetDirectly(e, dc'[i].dom[k][n], calls, cs)
                                ELSE SetByFlip(e, dc'[i].dom[k][n], calls, cs)
          /\ (dc[i].phase # "new" /\ ~dc[i].firstRun) => ~dc'[i].firstRun
          /\ (dc[i].phase = "mounted" /\ dc[i].firstRun /\ ~dc'[i].firstRun)
                => (DcTimeoutFire(i) \/ DcIntervalFire(i)) ]_vars

\* a clock has ticked, its timer effect has run again after a re-render, and
\* the tick of the new effect has started a flip
C24_Witness ==
    /\ dc["dc1"].phase = "mounted"
    /\ ~dc["dc1"].firstRun
    /\ dc["dc1"].renders >= 1
    /\ dc["dc1"].effect.timeoutId = 3
    /\ \E t \in JustTicked("dc1") : t.id = dc["dc1"].effect.intervalId
    /\ FlippedSlots(dc["dc1"].dom) # {}


----------------------------------------------------------------------------
(* The updater registry and the document (SpecClock) *)

\* C25: in a mounted clock, for every unit with digits in the document the registry digitUpdatersRef holds exactly one updater per rendered digit, and the updater at position n is the one of the element mounted at position n.
C25_RegistryMatchesDocument ==
    \A i \in DcInst :
        dc[i].phase = "mounted" =>
            \A k \in UnitKeys :
                dc[i].dom[k] # <<>> =>
                    /\ Len(dc[i].updaters[k]) = Len(dc[i].dom[k])
                    /\ \A n \in 1..Len(dc[i].dom[k]) :
                          dc[i].updaters[k][n] = dc[i].dom[k][n].id

=============================================================================
